---- MODULE Spec2Model ----
(***************************************************************************)
(* OpenBrowserClaw: the agent worker's tool-use loop (agent-worker.ts),    *)
(* the orchestrator's queue (the Orchestrator class) and the Copilot       *)
(* proxy's credential gateway (the express server), as state machines.     *)
(*                                                                         *)
(* A text is a sequence of tokens; the tags "<internal>" and "</internal>" *)
(* and the blank " " are tokens of their own.  A step of the model is one  *)
(* synchronous stretch of a handler, from one await to the next.           *)
(***************************************************************************)
EXTENDS Integers, Sequences, FiniteSets, TLC

VARIABLES
    script,             \* the backend's behaviour: which reply the n-th call of a run gets
    inbox,              \* commands posted to the worker, not yet received
    outbox,             \* terminal events posted by the worker, not yet received
    runs,               \* the activations of handleInvoke, in order of start
    autoContinueCount,  \* agent-worker.ts: the module-level nudge counter
    apiKey,             \* Orchestrator.apiKey
    provider,           \* Orchestrator.provider
    state,              \* Orchestrator.state
    messageQueue,       \* Orchestrator.messageQueue
    processing,         \* Orchestrator.processing
    tasks,              \* the main thread's async calls that are waiting at an await
    db,                 \* the stored messages, oldest first
    sent,               \* what router.send has handed to the channels
    received,           \* how many inbound messages the channels have delivered
    pendingScheduledTasks, \* Orchestrator: groups with a scheduled prompt under way
    events,             \* what the Orchestrator has emitted, and the chimes played
    fired,              \* how many prompts the task scheduler has fired
    compactions,        \* how many times compactContext has been called
    githubToken,        \* proxy server: the stored GitHub credential
    copilotToken,       \* proxy server: the cached Copilot token, or NoToken
    now,                \* proxy server: Date.now() / 1000
    reqs,               \* proxy server: the HTTP requests received, in order of arrival
    called,             \* translations: the call under way and its argument
    returned            \* translations: what the call returned

workerVars == <<script, inbox, outbox, runs, autoContinueCount>>

orchVars == <<apiKey, provider, state, messageQueue, processing, tasks, db, sent, received,
             pendingScheduledTasks, events, fired, compactions>>

gatewayVars == <<githubToken, copilotToken, now, reqs>>

translationVars == <<called, returned>>

vars == <<script, inbox, outbox, runs, autoContinueCount,
          apiKey, provider, state, messageQueue, processing, tasks, db, sent, received,
          pendingScheduledTasks, events, fired, compactions,
          githubToken, copilotToken, now, reqs, called, returned>>

-----------------------------------------------------------------------------
(* Bounds and program constants *)

MaxRuns == 2

MaxInbound == 2

MaxScheduled == 1

MaxCompactions == 1

MaxRequests == 2

MaxNow == 2

CONTEXT_WINDOW_SIZE == 50

maxIterations == 25

MAX_AUTO_CONTINUES == 5

DEFAULT_GROUP_ID == "br:main"

Min(a, b) == IF a < b THEN a ELSE b

-----------------------------------------------------------------------------
(* Texts *)

\* text.replace(/<internal>[\s\S]*?<\/internal>/g, ''): every span from an opening
\* tag to the first closing tag after it is dropped, left to right.
RECURSIVE StripInternal(_)
StripInternal(t) ==
    IF t = <<>> THEN <<>>
    ELSE IF Head(t) = "<internal>" /\ \E j \in 2..Len(t) : t[j] = "</internal>"
    THEN LET j == CHOOSE j \in 2..Len(t) :
                      /\ t[j] = "</internal>"
                      /\ \A k \in 2..(j - 1) : t[k] # "</internal>"
         IN StripInternal(SubSeq(t, j + 1, Len(t)))
    ELSE <<Head(t)>> \o StripInternal(Tail(t))

RECURSIVE TrimStart(_)
TrimStart(t) ==
    IF t # <<>> /\ Head(t) = " " THEN TrimStart(Tail(t)) ELSE t

RECURSIVE TrimEnd(_)
TrimEnd(t) ==
    IF t # <<>> /\ t[Len(t)] = " " THEN TrimEnd(SubSeq(t, 1, Len(t) - 1)) ELSE t

Trim(t) == TrimEnd(TrimStart(t))

\* result.content.filter(b => b.type === 'text').map(b => b.text).join('')
RECURSIVE JoinText(_)
JoinText(content) ==
    IF content = <<>> THEN <<>>
    ELSE (IF Head(content).type = "text" THEN Head(content).text ELSE <<>>)
         \o JoinText(Tail(content))

Cleaned(content) == Trim(StripInternal(JoinText(content)))

-----------------------------------------------------------------------------
(* The backend, as the worker sees it *)

TextBlock(t) == [type |-> "text", text |-> t]

ToolUseBlock(id, name) == [type |-> "tool_use", id |-> id, name |-> name]

ReplyKinds == {"tool", "tools2", "text", "empty", "http", "net"}

OkKinds == {"tool", "tools2", "text", "empty"}

\* A token count the usage object of a reply lacks.
NoCount == -1

\* A reply without a usage object.
NoUsage == [absent |-> TRUE]

UsageOf(input, output, cacheRead, cacheCreation) ==
    [input_tokens |-> input, output_tokens |-> output,
     cache_read_input_tokens |-> cacheRead,
     cache_creation_input_tokens |-> cacheCreation]

\* The body of a successful reply of each kind: a reply with all four token
\* counts, one without the cache counts, one without a usage object.
Reply(kind) ==
    CASE kind = "tool" ->
            [stop_reason |-> "tool_use",
             content |-> <<TextBlock(<<"Reading">>), ToolUseBlock("tu1", "read_file")>>,
             usage |-> UsageOf(12, 3, 5, 2)]
      [] kind = "tools2" ->
            [stop_reason |-> "tool_use",
             content |-> <<ToolUseBlock("tu1", "list_files"),
                           TextBlock(<<"and">>),
                           ToolUseBlock("tu2", "launch")>>,
             usage |-> UsageOf(12, 3, NoCount, NoCount)]
      [] kind = "text" ->
            [stop_reason |-> "end_turn",
             content |-> <<TextBlock(<<"<internal>", "plan", "</internal>", " ">>),
                           TextBlock(<<"Done.">>)>>,
             usage |-> UsageOf(12, 3, 5, 2)]
      [] kind = "empty" ->
            [stop_reason |-> "end_turn",
             content |-> <<TextBlock(<<" ", "<internal>", "plan", "</internal>">>)>>,
             usage |-> NoUsage]

\* The reply kind of the n-th backend call of a run.
ScriptKind(s, n) ==
    IF n < s.switchAt THEN s.head
    ELSE IF n = s.switchAt THEN s.mid
    ELSE s.tail

SwitchAt == {1, 2, maxIterations}

\* The backends of the model: one kind of reply throughout; or one kind for the
\* first call, any for the second and a reply without tool use from then on; or
\* tool use up to the last call the loop allows and another kind there.
WorkerScripts ==
    {s \in [head : OkKinds, switchAt : SwitchAt, mid : ReplyKinds, tail : ReplyKinds] :
        \/ s.switchAt = 1 /\ s.head = "tool" /\ s.mid = s.tail /\ s.tail # "tools2"
        \/ s.switchAt = 2 /\ s.head \in {"tools2", "text"} /\ s.mid # "tools2"
                          /\ s.tail \in {"text", "empty"}
        \/ s.switchAt = maxIterations /\ s.head = "tool" /\ s.mid = s.tail
                                       /\ s.tail # "tool"}

-----------------------------------------------------------------------------
(* agent-worker.ts *)

KnownTools == {"read_file", "list_files"}

\* The tools whose implementation throws in the model: the group has no directory
\* in storage, so listGroupFiles rejects.
FailingTools == {"list_files"}

\* executeTool without the default arm of its switch: an unknown name falls out
\* of the function with no string.
executeToolWithoutDefault(name) ==
    IF name \in FailingTools THEN <<"Tool error (", name, "):", "NotFoundError">>
    ELSE IF name \in KnownTools THEN <<"output of", name>>
    ELSE <<>>

\* executeTool: the string a tool call returns; the catch around the switch turns
\* what an implementation throws into a string, the default arm answers an
\* unknown name; never throws.
executeTool(name) ==
    IF name \in FailingTools THEN <<"Tool error (", name, "):", "NotFoundError">>
    ELSE IF name \in KnownTools THEN <<"output of", name>>
    ELSE <<"Unknown tool:", name>>

\* getContextLimit(model): the same for every model
getContextLimit == 200000

\* count || 0
OrZero(count) == IF count = NoCount THEN 0 ELSE count

\* The usage report without the guard on result.usage: a reply without a usage
\* object is reported with zero counts.
tokenUsageUnguarded(result, groupId) ==
    <<[type |-> "token-usage", groupId |-> groupId,
       inputTokens |-> IF result.usage = NoUsage THEN 0
                       ELSE OrZero(result.usage.input_tokens),
       outputTokens |-> IF result.usage = NoUsage THEN 0
                        ELSE OrZero(result.usage.output_tokens),
       cacheReadTokens |-> IF result.usage = NoUsage THEN 0
                           ELSE OrZero(result.usage.cache_read_input_tokens),
       cacheCreationTokens |-> IF result.usage = NoUsage THEN 0
                               ELSE OrZero(result.usage.cache_creation_input_tokens),
       contextLimit |-> getContextLimit]>>

\* if (result.usage) post({type: 'token-usage', payload: {...}}): the events the
\* run posts for the usage of a reply
tokenUsage(result, groupId) ==
    IF result.usage = NoUsage THEN <<>>
    ELSE <<[type |-> "token-usage", groupId |-> groupId,
            inputTokens |-> OrZero(result.usage.input_tokens),
            outputTokens |-> OrZero(result.usage.output_tokens),
            cacheReadTokens |-> OrZero(result.usage.cache_read_input_tokens),
            cacheCreationTokens |-> OrZero(result.usage.cache_creation_input_tokens),
            contextLimit |-> getContextLimit]>>

\* post({type: 'typing', payload: {groupId}})
Typing == [type |-> "typing"]

\* log(groupId, kind, label, detail): post({type: 'thinking-log', ...})
Log(kind) == [type |-> "thinking-log", kind |-> kind]

\* for (const block of result.content) if (block.type === 'text' && block.text) log(...)
RECURSIVE textLogs(_)
textLogs(content) ==
    IF content = <<>> THEN <<>>
    ELSE (IF Head(content).type = "text" /\ Head(content).text # <<>>
          THEN <<Log("text")>> ELSE <<>>) \o textLogs(Tail(content))

CapWarning ==
    <<"Reached maximum tool-use iterations (25). Stopping to avoid excessive API usage.">>

nudgeMessages ==
    << <<"Continue - use the tools to complete the task.">>,
       <<"You must use a tool now. Pick the most relevant one and invoke it.">>,
       <<"Your next message MUST be a tool call, not text.">> >>

EmptyPrefix == <<"You did not provide a response or call a tool. ">>

StringMessage(role, t) == [role |-> role, kind |-> "string", text |-> t]

BlockMessage(role, blocks) == [role |-> role, kind |-> "blocks", blocks |-> blocks]

InitialMessages == <<StringMessage("user", <<"hello">>)>>

\* while (iterations < maxIterations)
LoopConditionOffByOne(iterations) == iterations <= maxIterations

LoopCondition(iterations) == iterations < maxIterations

\* shouldNudge without the test of the budget
shouldNudgeWithoutBudget(count, hasUsedTools, cleaned) ==
    ~hasUsedTools \/ cleaned = <<>>

\* const shouldNudge = autoContinueCount < MAX_AUTO_CONTINUES && (!hasUsedTools || isEmptyResponse)
shouldNudgeIgnoringTools(count, hasUsedTools, cleaned) ==
    count < MAX_AUTO_CONTINUES

shouldNudge(count, hasUsedTools, cleaned) ==
    count < MAX_AUTO_CONTINUES /\ (~hasUsedTools \/ cleaned = <<>>)

\* Math.min(autoContinueCount - 1, nudgeMessages.length - 1), after the increment
nudgeIdx(count) == Min(count - 1, Len(nudgeMessages) - 1)

\* The index of the first tool_use block of content after position i, or 0.
NextToolUse(content, i) ==
    IF \E j \in (i + 1)..Len(content) : content[j].type = "tool_use"
    THEN CHOOSE j \in (i + 1)..Len(content) :
            /\ content[j].type = "tool_use"
            /\ \A k \in (i + 1)..(j - 1) : content[k].type # "tool_use"
    ELSE 0

NewRun(payload) ==
    [pc |-> "fetch",
     payload |-> payload,
     groupId |-> payload.groupId,
     iterations |-> 1,
     hasUsedTools |-> FALSE,
     currentMessages |-> payload.messages,
     result |-> <<>>,
     block |-> 0,
     toolResults |-> <<>>,
     calls |-> 1,
     trace |-> <<Typing, Log("info")>>,
     out |-> <<>>,
     cancelled |-> FALSE]

\* The end of a turn that goes on without the return after the cap warning:
\* the run posts the warning and makes a further backend call.
\* The while loop without its iterations++: the cap is never reached.
LoopAgainWithoutCount(run) ==
    [run EXCEPT !.pc = "fetch", !.calls = @ + 1,
                !.result = <<>>, !.block = 0, !.toolResults = <<>>,
                !.trace = Append(@, Typing)]

LoopAgainAfterWarning(run) ==
    IF LoopCondition(run.iterations)
    THEN [run EXCEPT !.pc = "fetch", !.iterations = @ + 1, !.calls = @ + 1,
                     !.result = <<>>, !.block = 0, !.toolResults = <<>>,
                     !.trace = Append(@, Typing)]
    ELSE [run EXCEPT !.pc = "fetch", !.iterations = @ + 1, !.calls = @ + 1,
                     !.result = <<>>, !.block = 0, !.toolResults = <<>>,
                     !.trace = Append(@, Typing),
                     !.out = Append(@, [type |-> "response", text |-> CapWarning])]

\* The end of a turn that goes round the loop: typing is re-signalled, then the
\* top of the while loop makes the next backend call or, at the cap, the
\* warning is posted and handleInvoke ends.
LoopAgain(run) ==
    IF LoopCondition(run.iterations)
    THEN [run EXCEPT !.pc = "fetch", !.iterations = @ + 1, !.calls = @ + 1,
                     !.result = <<>>, !.block = 0, !.toolResults = <<>>,
                     !.trace = Append(@, Typing)]
    ELSE [run EXCEPT !.pc = "done", !.result = <<>>, !.block = 0, !.toolResults = <<>>,
                     !.trace = Append(@, Typing),
                     !.out = Append(@, [type |-> "response", text |-> CapWarning])]

\* currentMessages.push(assistant turn); currentMessages.push(tool results); loop
EndToolTurnSwapped(run) ==
    LoopAgain([run EXCEPT
        !.currentMessages = @ \o <<BlockMessage("user", run.toolResults),
                                   BlockMessage("assistant", run.result)>>])

EndToolTurn(run) ==
    LoopAgain([run EXCEPT
        !.currentMessages = @ \o <<BlockMessage("assistant", run.result),
                                   BlockMessage("user", run.toolResults)>>])

\* self.onmessage, case 'invoke': handleInvoke up to its first fetch
WorkerOnMessage ==
    /\ inbox # <<>>
    /\ Head(inbox).type = "invoke"
    /\ inbox' = Tail(inbox)
    /\ autoContinueCount' = 0
    /\ runs' = Append(runs, NewRun(Head(inbox).payload))
    /\ UNCHANGED <<script, outbox>>
    /\ UNCHANGED orchVars
    /\ UNCHANGED gatewayVars
    /\ UNCHANGED translationVars

Terminal(r, run) ==
    IF run.pc = "done" /\ runs[r].pc # "done"
    THEN <<[run |-> r, groupId |-> run.groupId] @@ run.out[Len(run.out)]>>
    ELSE <<>>

\* catch (err): post({type: 'error', ...}); the run is over
OnBackendErrorRetry(run, message) ==
    [run EXCEPT !.pc = "fetch", !.iterations = @ + 1, !.calls = @ + 1]

OnBackendError(run, message) ==
    [run EXCEPT !.pc = "done", !.out = Append(@, [type |-> "error", error |-> message])]

\* fetch rejects, or res.ok is false and the status and body are thrown
BackendFails(r) ==
    /\ runs[r].pc = "fetch"
    /\ ScriptKind(script, runs[r].calls) \in {"http", "net"}
    /\ LET kind == ScriptKind(script, runs[r].calls)
           message == IF kind = "http"
                      THEN <<"Anthropic API error", "529", "overloaded">>
                      ELSE <<"Failed to fetch">>
           run == OnBackendError(runs[r], message)
       IN /\ runs' = [runs EXCEPT ![r] = run]
          /\ outbox' = outbox \o Terminal(r, run)
    /\ UNCHANGED <<script, inbox, autoContinueCount>>
    /\ UNCHANGED orchVars
    /\ UNCHANGED gatewayVars
    /\ UNCHANGED translationVars

\* the reply says tool_use: the first tool call starts
ToolUseTurn(r) ==
    /\ runs[r].pc = "fetch"
    /\ ScriptKind(script, runs[r].calls) \in OkKinds
    /\ LET result == Reply(ScriptKind(script, runs[r].calls))
           first == NextToolUse(result.content, 0)
           got == [runs[r] EXCEPT !.result = result.content, !.hasUsedTools = TRUE,
                                  !.toolResults = <<>>,
                                  !.trace = tokenUsage(result, runs[r].groupId)
                                               \o textLogs(result.content)]
           run == IF first = 0 THEN EndToolTurn(got)
                  ELSE [got EXCEPT !.pc = "tool", !.block = first,
                            !.trace = @ \o <<Log("tool-call"),
                                             [type |-> "tool-activity",
                                              tool |-> result.content[first].name,
                                              id |-> result.content[first].id,
                                              status |-> "running"]>>]
       IN /\ result.stop_reason = "tool_use"
          /\ autoContinueCount' = IF runs[r].hasUsedTools THEN autoContinueCount ELSE 0
          /\ runs' = [runs EXCEPT ![r] = run]
          /\ outbox' = outbox \o Terminal(r, run)
    /\ UNCHANGED <<script, inbox>>
    /\ UNCHANGED orchVars
    /\ UNCHANGED gatewayVars
    /\ UNCHANGED translationVars

\* executeTool returns: the 'done' event, the tool_result, then the next tool
\* call of the turn or the next iteration
ToolReturns(r) ==
    /\ runs[r].pc = "tool"
    /\ LET b == runs[r].result[runs[r].block]
           output == executeTool(b.name)
           next == NextToolUse(runs[r].result, runs[r].block)
           got == [runs[r] EXCEPT
                      !.trace = @ \o <<[type |-> "executed", tool |-> b.name, id |-> b.id],
                                       Log("tool-result"),
                                       [type |-> "tool-activity", tool |-> b.name,
                                        id |-> b.id, status |-> "done"]>>,
                      !.toolResults = Append(@, [type |-> "tool_result",
                                                 tool_use_id |-> b.id,
                                                 content |-> output])]
           run == IF next = 0 THEN EndToolTurn(got)
                  ELSE [got EXCEPT !.block = next,
                            !.trace = @ \o <<Log("tool-call"),
                                             [type |-> "tool-activity",
                                              tool |-> runs[r].result[next].name,
                                              id |-> runs[r].result[next].id,
                                              status |-> "running"]>>]
       IN /\ runs' = [runs EXCEPT ![r] = run]
          /\ outbox' = outbox \o Terminal(r, run)
    /\ UNCHANGED <<script, inbox, autoContinueCount>>
    /\ UNCHANGED orchVars
    /\ UNCHANGED gatewayVars
    /\ UNCHANGED translationVars

\* the reply does not say tool_use: nudge, or return the cleaned text
TextTurn(r) ==
    /\ runs[r].pc = "fetch"
    /\ ScriptKind(script, runs[r].calls) \in OkKinds
    /\ LET result == Reply(ScriptKind(script, runs[r].calls))
           cleaned == Cleaned(result.content)
           count == autoContinueCount + 1
           nudge == IF cleaned = <<>>
                    THEN EmptyPrefix \o nudgeMessages[nudgeIdx(count) + 1]
                    ELSE nudgeMessages[nudgeIdx(count) + 1]
           got == [runs[r] EXCEPT !.result = result.content,
                                  !.trace = tokenUsage(result, runs[r].groupId)
                                               \o textLogs(result.content)]
           text == IF cleaned # <<>> THEN cleaned
                   ELSE IF runs[r].iterations > 1 THEN <<>> ELSE <<"(no response)">>
       IN /\ result.stop_reason # "tool_use"
          /\ IF /\ LoopCondition(runs[r].iterations)
                /\ shouldNudge(autoContinueCount, runs[r].hasUsedTools, cleaned)
             THEN /\ autoContinueCount' = count
                  /\ runs' = [runs EXCEPT ![r] = LoopAgain([got EXCEPT
                        !.trace = Append(@, Log("info")),
                        !.currentMessages = @ \o
                            <<BlockMessage("assistant", result.content),
                              StringMessage("user", nudge)>>])]
                  /\ outbox' = outbox
             ELSE LET run == [got EXCEPT !.pc = "done", !.result = <<>>,
                                   !.out = Append(@, [type |-> "response", text |-> text])]
                  IN /\ autoContinueCount' = autoContinueCount
                     /\ runs' = [runs EXCEPT ![r] = run]
                     /\ outbox' = outbox \o Terminal(r, run)
    /\ UNCHANGED <<script, inbox>>
    /\ UNCHANGED orchVars
    /\ UNCHANGED gatewayVars
    /\ UNCHANGED translationVars

WorkerStep ==
    \/ WorkerOnMessage
    \/ \E r \in 1..Len(runs) : BackendFails(r)
    \/ \E r \in 1..Len(runs) : ToolUseTurn(r)
    \/ \E r \in 1..Len(runs) : ToolReturns(r)
    \/ \E r \in 1..Len(runs) : TextTurn(r)

-----------------------------------------------------------------------------
(* The proxy server: credential, token cache and forwarding *)

REFRESH_BUFFER == 60

NoToken == [token |-> <<>>, expires_at |-> 0, chat_enabled |-> FALSE]

GoodCredentials == {"ghp_good"}

BadCredentials == {"ghp_bad"}

\* What a client may put in the "token" field; "" stands for a missing field.
RawTokens == {"", "   ", "ghp_good", " ghp_good ", "ghp_bad"}

\* token.trim()
TrimToken(raw) ==
    CASE raw = "   " -> ""
      [] raw = " ghp_good " -> "ghp_good"
      [] OTHER -> raw

\* How long an issued token lives, in seconds: at the refresh buffer and just above.
Lifetimes == {REFRESH_BUFFER, REFRESH_BUFFER + 1}

\* A model id is the sequence of its words, digits, dashes and dots, so that a
\* prefix of the id's text is a prefix of the sequence; <<>> stands for a request
\* without a model.
NoModel == <<>>

DefaultModel == <<"claude", "-", "sonnet", "-", "4", "-", "6">>

RequestModels ==
    {NoModel,
     <<"claude", "-", "opus", "-", "4", "-", "6", "-", "fast">>,
     <<"gpt", "-", "5", ".", "1", "-", "codex">>,
     <<"gpt", "-", "5", ".", "1", "-", "codex", "-", "mini">>}

\* What a client may put in the "max_tokens" field; 0 stands for a missing field.
RequestMaxTokens == {0, 1024}

COPILOT_CHAT_URL == "https://api.githubcopilot.com/chat/completions"

COPILOT_RESPONSES_URL == "https://api.githubcopilot.com/responses"

RESPONSES_API_MODELS ==
    {<<"gpt", "-", "5", ".", "3", "-", "codex">>,
     <<"gpt", "-", "5", ".", "2", "-", "codex">>,
     <<"gpt", "-", "5", ".", "1", "-", "codex">>,
     <<"gpt", "-", "5", ".", "1", "-", "codex", "-", "mini">>,
     <<"gpt", "-", "5", ".", "1", "-", "codex", "-", "max">>}

isResponsesModelWithoutVariants(model) ==
    model \in {m \in RESPONSES_API_MODELS : Len(m) = 7}

isResponsesModel(model) == model \in RESPONSES_API_MODELS

\* model.startsWith(prefix)
StartsWith(m, prefix) ==
    Len(m) >= Len(prefix) /\ SubSeq(m, 1, Len(prefix)) = prefix

mapModelToCopilotViaDefault(model) ==
    CASE StartsWith(model, <<"claude", "-", "opus", "-", "4", "-", "6">>) -> DefaultModel
      [] StartsWith(model, <<"claude", "-", "sonnet", "-", "4", "-", "6">>) ->
            <<"claude", "-", "sonnet", "-", "4", ".", "6">>
      [] OTHER -> model

mapModelToCopilot(model) ==
    CASE StartsWith(model, <<"claude", "-", "opus", "-", "4", "-", "6">>) ->
            <<"claude", "-", "opus", "-", "4", ".", "6">>
      [] StartsWith(model, <<"claude", "-", "sonnet", "-", "4", "-", "6">>) ->
            <<"claude", "-", "sonnet", "-", "4", ".", "6">>
      [] StartsWith(model, <<"claude", "-", "opus", "-", "4", "-", "5">>) ->
            <<"claude", "-", "opus", "-", "4", ".", "5">>
      [] StartsWith(model, <<"claude", "-", "sonnet", "-", "4", "-", "5">>) ->
            <<"claude", "-", "sonnet", "-", "4", ".", "5">>
      [] StartsWith(model, <<"claude", "-", "haiku", "-", "4", "-", "5">>) ->
            <<"claude", "-", "haiku", "-", "4", ".", "5">>
      [] OTHER -> model

NoReply == [status |-> 0, type |-> "", error |-> <<>>]

NoAnswer == [kind |-> "", status |-> 0, body |-> "", token |-> NoToken]

NewRequest(route, raw, model, max_tokens) ==
    [route |-> route, pc |-> "arrived", token |-> raw, model |-> model,
     max_tokens |-> max_tokens, url |-> "", credential |-> "", jwt |-> <<>>, issuerCalls |-> 0, backendCalls |-> 0,
     issuer |-> NoAnswer, backend |-> NoAnswer, reply |-> NoReply]

Done(req, reply) == [req EXCEPT !.pc = "done", !.reply = reply]

\* if (!copilotToken || (Date.now() / 1000) >= copilotToken.expires_at - 60)
NeedsRefreshWithoutBuffer(cached, t) ==
    cached = NoToken \/ t >= cached.expires_at

NeedsRefresh(cached, t) ==
    cached = NoToken \/ t >= cached.expires_at - REFRESH_BUFFER

\* refreshCopilotToken, !res.ok: copilotToken = null
CacheAfterFailureKept(cached) == cached

CacheAfterFailure(cached) == NoToken

\* refreshCopilotToken, success: copilotToken = await res.json()
CacheAfterSuccess(cached, issued) == issued

\* app.post('/auth/github-token'), catch: githubToken = ''
CredentialAfterFailure(stored) == ""

ExchangeFailed(status, body) == <<"Copilot token exchange failed", status, body>>

\* The reply of the route once getCopilotJWT has thrown err
ReplyToError(route, message) ==
    CASE route = "auth" -> [status |-> 401, type |-> "error", error |-> message]
      [] route = "status" -> [status |-> 200, type |-> "unauthenticated", error |-> message]
      [] route = "messages" -> [status |-> 500, type |-> "api_error", error |-> message]

\* res.status(copilotRes.status).json({type: 'error', error: {type: 'api_error', message}})
BackendErrorReplyAs500(pipeline, status, body) ==
    [status |-> 500, type |-> "api_error",
     error |-> <<IF pipeline = "responses" THEN "Copilot Responses API error"
                 ELSE "Copilot API error", status, body>>]

BackendErrorReply(pipeline, status, body) ==
    [status |-> status, type |-> "api_error",
     error |-> <<IF pipeline = "responses" THEN "Copilot Responses API error"
                 ELSE "Copilot API error", status, body>>]

\* const originalModel = req.body.model || 'claude-sonnet-4-6'
originalModel(req) == IF req.model = NoModel THEN DefaultModel ELSE req.model

\* const useResponsesAPI = isResponsesModel(mapModelToCopilot(originalModel))
useResponsesAPI(req) == isResponsesModel(mapModelToCopilot(originalModel(req)))

Pipeline(req) == IF useResponsesAPI(req) THEN "responses" ELSE "chat"

\* The route after getCopilotJWT has returned the token jwt: the messages route
\* sends its completion request, the others answer.
AfterJWT(req, cached) ==
    CASE req.route = "messages" ->
            [req EXCEPT !.pc = "backend", !.jwt = cached.token, !.backendCalls = @ + 1,
                        !.url = IF useResponsesAPI(req) THEN COPILOT_RESPONSES_URL
                                ELSE COPILOT_CHAT_URL]
      [] req.route = "auth" ->
            Done([req EXCEPT !.jwt = cached.token],
                 [status |-> 200, type |-> "success", error |-> <<cached.chat_enabled>>])
      [] req.route = "status" ->
            Done([req EXCEPT !.jwt = cached.token],
                 [status |-> 200, type |-> "authenticated",
                  error |-> <<cached.expires_at, cached.chat_enabled>>])

\* getCopilotJWT, called with this credential stored and this token cached: up
\* to the fetch of refreshCopilotToken, or to the end of the route's synchronous part
getCopilotJWT(req, stored, cached) ==
    IF NeedsRefresh(cached, now)
    THEN IF stored = ""
         THEN [req |-> Done(req, ReplyToError(req.route, <<"No GitHub token configured">>)),
               stored |-> IF req.route = "auth" THEN CredentialAfterFailure(stored)
                          ELSE stored]
         ELSE [req |-> [req EXCEPT !.pc = "exchange", !.credential = stored,
                                   !.issuerCalls = @ + 1],
               stored |-> stored]
    ELSE [req |-> AfterJWT(req, cached), stored |-> stored]

Arrive(req, stored, cached) ==
    /\ Len(reqs) < MaxRequests
    /\ LET got == getCopilotJWT(req, stored, cached)
       IN /\ reqs' = Append(reqs, got.req)
          /\ githubToken' = got.stored
          /\ copilotToken' = cached
    /\ now' = now
    /\ UNCHANGED workerVars
    /\ UNCHANGED orchVars
    /\ UNCHANGED translationVars

\* app.post('/auth/github-token') up to its first await
PostGithubToken(raw) ==
    IF raw = ""
    THEN /\ Len(reqs) < MaxRequests
         /\ reqs' = Append(reqs, Done(NewRequest("auth", raw, NoModel, 0),
                                      [status |-> 400, type |-> "error",
                                       error |-> <<"Missing token in request body">>]))
         /\ UNCHANGED <<githubToken, copilotToken, now>>
         /\ UNCHANGED workerVars
         /\ UNCHANGED orchVars
         /\ UNCHANGED translationVars
    ELSE Arrive(NewRequest("auth", raw, NoModel, 0), TrimToken(raw), NoToken)

\* app.post('/v1/messages') up to its first await
PostMessages(model, max_tokens) ==
    IF githubToken = ""
    THEN /\ Len(reqs) < MaxRequests
         /\ reqs' = Append(reqs, Done(NewRequest("messages", "", model, max_tokens),
                                      [status |-> 401, type |-> "authentication_error",
                                       error |-> <<"No GitHub token configured.">>]))
         /\ UNCHANGED <<githubToken, copilotToken, now>>
         /\ UNCHANGED workerVars
         /\ UNCHANGED orchVars
         /\ UNCHANGED translationVars
    ELSE Arrive(NewRequest("messages", "", model, max_tokens), githubToken, copilotToken)

\* app.get('/auth/status') up to its first await
GetAuthStatus ==
    IF githubToken = ""
    THEN /\ Len(reqs) < MaxRequests
         /\ reqs' = Append(reqs, Done(NewRequest("status", "", NoModel, 0),
                                      [status |-> 200, type |-> "unauthenticated",
                                       error |-> <<"No GitHub token">>]))
         /\ UNCHANGED <<githubToken, copilotToken, now>>
         /\ UNCHANGED workerVars
         /\ UNCHANGED orchVars
         /\ UNCHANGED translationVars
    ELSE Arrive(NewRequest("status", "", NoModel, 0), githubToken, copilotToken)

\* What the token endpoint may answer to this credential; "net" is a fetch that rejects.
IssuerAnswers(credential) ==
    {[kind |-> "net", status |-> 0, body |-> "", token |-> NoToken]}
    \cup (IF credential \in GoodCredentials
          THEN {[kind |-> "ok", status |-> 200, body |-> "",
                 token |-> [token |-> <<"jwt", credential, now>>,
                            expires_at |-> now + life, chat_enabled |-> TRUE]] :
                    life \in Lifetimes}
          ELSE {[kind |-> "status", status |-> 401, body |-> "Bad credentials",
                 token |-> NoToken]})

\* refreshCopilotToken after its fetch, and the caller's code after it
IssuerReplies(q, answer) ==
    /\ reqs[q].pc = "exchange"
    /\ answer \in IssuerAnswers(reqs[q].credential)
    /\ LET req == [reqs[q] EXCEPT !.issuer = answer]
           message == IF answer.kind = "status"
                      THEN ExchangeFailed(answer.status, answer.body)
                      ELSE <<"fetch failed">>
       IN IF answer.kind = "ok"
          THEN /\ copilotToken' = CacheAfterSuccess(copilotToken, answer.token)
               /\ githubToken' = githubToken
               /\ reqs' = [reqs EXCEPT ![q] = AfterJWT(req, copilotToken')]
          ELSE /\ copilotToken' = IF answer.kind = "status"
                                  THEN CacheAfterFailure(copilotToken)
                                  ELSE copilotToken
               /\ githubToken' = IF req.route = "auth"
                                 THEN CredentialAfterFailure(githubToken)
                                 ELSE githubToken
               /\ reqs' = [reqs EXCEPT ![q] = Done(req, ReplyToError(req.route, message))]
    /\ now' = now
    /\ UNCHANGED workerVars
    /\ UNCHANGED orchVars
    /\ UNCHANGED translationVars

BackendAnswers ==
    {[kind |-> "ok", status |-> 200, body |-> "completion", token |-> NoToken],
     [kind |-> "status", status |-> 429, body |-> "rate limited", token |-> NoToken],
     [kind |-> "net", status |-> 0, body |-> "", token |-> NoToken]}

\* app.post('/v1/messages') after the fetch of the completion endpoint
BackendReplies(q, answer) ==
    /\ reqs[q].pc = "backend"
    /\ answer \in BackendAnswers
    /\ LET req == [reqs[q] EXCEPT !.backend = answer]
           reply == CASE answer.kind = "ok" ->
                            [status |-> 200, type |-> "message",
                             error |-> <<Pipeline(req), answer.body>>]
                      [] answer.kind = "status" ->
                            BackendErrorReply(Pipeline(req), answer.status, answer.body)
                      [] answer.kind = "net" ->
                            [status |-> 500, type |-> "api_error",
                             error |-> <<"fetch failed">>]
       IN reqs' = [reqs EXCEPT ![q] = Done(req, reply)]
    /\ UNCHANGED <<githubToken, copilotToken, now>>
    /\ UNCHANGED workerVars
    /\ UNCHANGED orchVars
    /\ UNCHANGED translationVars

\* Time passes.
Tick ==
    /\ now < MaxNow
    /\ now' = now + 1
    /\ UNCHANGED <<githubToken, copilotToken, reqs>>
    /\ UNCHANGED workerVars
    /\ UNCHANGED orchVars
    /\ UNCHANGED translationVars

\* No translation has been called.
NoCall == [fn |-> "", pending |-> FALSE]

NoReturn == [model |-> NoModel, body |-> <<>>]

InitTranslationsIdle ==
    /\ called = NoCall
    /\ returned = NoReturn

InitGatewayIdle ==
    /\ githubToken = ""
    /\ copilotToken = NoToken
    /\ now = 0
    /\ reqs = <<>>

-----------------------------------------------------------------------------
(* The Orchestrator *)

ASSISTANT_NAME == "Andy"

Groups == {DEFAULT_GROUP_ID, "tg:1"}

\* What a channel may deliver: plain text, and text that mentions the assistant.
Contents == {<<"hi">>, <<" ", "@ANDY", " ", "hi">>, <<"hi", "@andy">>}

\* buildTriggerPattern(name).test(text): /(^|\s)@name\b/i
MentionTokens == {"@Andy", "@andy", "@ANDY"}

triggerPatternTestAnywhere(t) ==
    \E i \in 1..Len(t) : t[i] \in MentionTokens

triggerPatternTest(t) ==
    \E i \in 1..Len(t) : t[i] \in MentionTokens /\ (i = 1 \/ t[i - 1] = " ")

\* triggerContent.startsWith('[SCHEDULED TASK]')
IsScheduled(content) == content # <<>> /\ Head(content) = "[SCHEDULED TASK]"

Last(q, n) == SubSeq(q, IF Len(q) > n THEN Len(q) - n + 1 ELSE 1, Len(q))

\* db.ts buildConversationMessages(groupId, limit): the group's most recent
\* messages, oldest first, the assistant's own as assistant turns
buildConversationMessages(stored, groupId, limit) ==
    LET mine == Last(SelectSeq(stored, LAMBDA m : m.groupId = groupId), limit)
    IN [i \in 1..Len(mine) |->
           StringMessage(IF mine[i].isFromMe THEN "assistant" ELSE "user",
                         mine[i].content)]

\* db.ts saveMessage(stored) and clearGroupMessages(groupId), on the stored
\* messages in the order of their saving
saveMessage(stored, m) == Append(stored, m)

clearGroupMessages(stored, groupId) == SelectSeq(stored, LAMBDA m : m.groupId # groupId)

\* The prompt the task scheduler passes to its callback.
ScheduledPrompt == <<"[SCHEDULED TASK]", " ", "report">>

Ev(ev, groupId) == [ev |-> ev, groupId |-> groupId]

Orch == [state |-> state, messageQueue |-> messageQueue, processing |-> processing,
         tasks |-> tasks, pendingScheduledTasks |-> pendingScheduledTasks,
         events |-> events]

\* setState(state)
setState(o, st) == [o EXCEPT !.state = st, !.events = Append(@, Ev(st, ""))]

\* invokeAgent up to its first await
invokeAgent(o, msg, viaQueue) ==
    LET o1 == setState(o, "thinking")
        scheduled == IsScheduled(msg.content)
    IN [o1 EXCEPT !.events = Append(@, Ev("typing", msg.groupId)),
                  !.pendingScheduledTasks =
                      IF scheduled THEN @ \cup {msg.groupId} ELSE @,
                  !.tasks = @ \cup {[fn |-> "invokeAgent",
                                     pc |-> IF scheduled THEN "saveScheduled" ELSE "context",
                                     id |-> msg.id, groupId |-> msg.groupId,
                                     text |-> msg.content, viaQueue |-> viaQueue]}]

\* if (!this.apiKey && this.provider === 'anthropic')
NotConfigured == apiKey = "" /\ provider = "anthropic"

\* isConfigured()
isConfigured == provider = "copilot-proxy" \/ apiKey # ""

\* if (this.processing) return
IsProcessing(o) == o.processing

\* processQueue up to its first await
processQueue(o) ==
    IF IsProcessing(o) THEN o
    ELSE IF o.messageQueue = <<>> THEN o
    ELSE IF NotConfigured
    THEN [o EXCEPT !.messageQueue = Tail(@),
                   !.events = Append(@, Ev("error", Head(o.messageQueue).groupId))]
    ELSE invokeAgent([o EXCEPT !.processing = TRUE, !.messageQueue = Tail(@)],
                     Head(o.messageQueue), TRUE)

\* processQueue: finally { this.processing = false; if (queue.length > 0) processQueue() }
processQueueFinally(o) ==
    LET o1 == [o EXCEPT !.processing = FALSE]
    IN IF o1.messageQueue # <<>> THEN processQueue(o1) ELSE o1

SetOrch(o) ==
    /\ state' = o.state
    /\ messageQueue' = o.messageQueue
    /\ processing' = o.processing
    /\ tasks' = o.tasks
    /\ pendingScheduledTasks' = o.pendingScheduledTasks
    /\ events' = o.events

\* A channel's onMessage callback: enqueue(msg) up to await saveMessage(stored)
Enqueue(groupId, content) ==
    /\ received < MaxInbound
    /\ received' = received + 1
    /\ LET msg == [id |-> <<"in", received + 1>>, groupId |-> groupId, content |-> content]
           isTrigger == groupId = DEFAULT_GROUP_ID \/ triggerPatternTest(Trim(content))
       IN /\ messageQueue' = IF isTrigger THEN Append(messageQueue, msg) ELSE messageQueue
          /\ tasks' = tasks \cup {[fn |-> "enqueue", pc |-> "save", id |-> msg.id,
                                   groupId |-> groupId, text |-> content,
                                   viaQueue |-> isTrigger]}
    /\ UNCHANGED <<apiKey, provider, state, processing, db, sent>>
    /\ UNCHANGED <<pendingScheduledTasks, events, fired, compactions>>
    /\ UNCHANGED workerVars
    /\ UNCHANGED gatewayVars
    /\ UNCHANGED translationVars

\* enqueue after saveMessage: emit 'message', then processQueue()
EnqueueSaved(t) ==
    /\ t \in tasks
    /\ t.fn = "enqueue"
    /\ db' = saveMessage(db, [id |-> t.id, groupId |-> t.groupId, content |-> t.text,
                              isFromMe |-> FALSE, isTrigger |-> t.viaQueue])
    /\ SetOrch(processQueue([Orch EXCEPT !.tasks = @ \ {t},
                                         !.events = Append(@, Ev("message", t.groupId))]))
    /\ UNCHANGED <<apiKey, provider, sent, received, fired, compactions>>
    /\ UNCHANGED workerVars
    /\ UNCHANGED gatewayVars
    /\ UNCHANGED translationVars

\* The task scheduler's callback: (groupId, prompt) => this.invokeAgent(groupId, prompt)
SchedulerFires(groupId) ==
    /\ fired < MaxScheduled
    /\ fired' = fired + 1
    /\ SetOrch(invokeAgent(Orch, [id |-> <<"sched", fired + 1>>, groupId |-> groupId,
                                  content |-> ScheduledPrompt], FALSE))
    /\ UNCHANGED <<apiKey, provider, db, sent, received, compactions>>
    /\ UNCHANGED workerVars
    /\ UNCHANGED gatewayVars
    /\ UNCHANGED translationVars

\* invokeAgent of a scheduled prompt after saveMessage: emit 'message'
ScheduledSaved(t) ==
    /\ t \in tasks
    /\ t.fn = "invokeAgent"
    /\ t.pc = "saveScheduled"
    /\ db' = saveMessage(db, [id |-> t.id, groupId |-> t.groupId, content |-> t.text,
                              isFromMe |-> FALSE, isTrigger |-> TRUE])
    /\ events' = Append(events, Ev("message", t.groupId))
    /\ tasks' = (tasks \ {t}) \cup {[t EXCEPT !.pc = "context"]}
    /\ UNCHANGED <<apiKey, provider, state, messageQueue, processing, sent, received>>
    /\ UNCHANGED <<pendingScheduledTasks, fired, compactions>>
    /\ UNCHANGED workerVars
    /\ UNCHANGED gatewayVars
    /\ UNCHANGED translationVars

\* invokeAgent after readGroupFile and buildConversationMessages: the invoke
\* command is posted; then, when processQueue called it, the finally block
InvokeAgentPosts(t) ==
    /\ t \in tasks
    /\ t.fn = "invokeAgent"
    /\ t.pc = "context"
    /\ inbox' = Append(inbox,
          [type |-> "invoke",
           payload |-> [groupId |-> t.groupId, trigger |-> t.id,
                        messages |-> buildConversationMessages(db, t.groupId,
                                                               CONTEXT_WINDOW_SIZE)]])
    /\ LET o == [Orch EXCEPT !.tasks = @ \ {t}]
       IN SetOrch(IF t.viaQueue THEN processQueueFinally(o) ELSE o)
    /\ UNCHANGED <<apiKey, provider, db, sent, received, fired, compactions>>
    /\ UNCHANGED <<script, outbox, runs, autoContinueCount>>
    /\ UNCHANGED gatewayVars
    /\ UNCHANGED translationVars

\* An awaited storage call of invokeAgent rejects: invokeAgent throws; when
\* processQueue called it, its catch logs the error and its finally block runs
InvokeAgentFails(t) ==
    /\ t \in tasks
    /\ t.fn = "invokeAgent"
    /\ LET o == [Orch EXCEPT !.tasks = @ \ {t}]
       IN SetOrch(IF t.viaQueue THEN processQueueFinally(o) ELSE o)
    /\ UNCHANGED <<apiKey, provider, db, sent, received, fired, compactions>>
    /\ UNCHANGED workerVars
    /\ UNCHANGED gatewayVars
    /\ UNCHANGED translationVars

\* deliverResponse with an empty text
deliverNothing(o, groupId) ==
    setState([o EXCEPT !.events = Append(@, Ev("typing-end", groupId))], "idle")

\* agentWorker.onmessage: handleWorkerMessage, cases 'response', 'error' and
\* 'compact-done', up to the first await of deliverResponse or handleCompactDone
HandleWorkerMessage ==
    /\ outbox # <<>>
    /\ outbox' = Tail(outbox)
    /\ LET e == Head(outbox)
       IN IF e.type = "compact-done"
          THEN SetOrch([Orch EXCEPT !.tasks = @ \cup
                            {[fn |-> "handleCompactDone", pc |-> "clear",
                              id |-> <<"out", e.run>>, groupId |-> e.groupId,
                              text |-> e.summary, viaQueue |-> FALSE]}])
          ELSE LET text == IF e.type = "error" THEN <<"Error: ">> \o e.error ELSE e.text
               IN IF text = <<>>
                  THEN SetOrch(deliverNothing(Orch, e.groupId))
                  ELSE SetOrch([Orch EXCEPT !.tasks = @ \cup
                                    {[fn |-> "deliverResponse", pc |-> "save",
                                      id |-> <<"out", e.run>>, groupId |-> e.groupId,
                                      text |-> text, viaQueue |-> FALSE]}])
    /\ UNCHANGED <<apiKey, provider, db, sent, received, fired, compactions>>
    /\ UNCHANGED <<script, inbox, runs, autoContinueCount>>
    /\ UNCHANGED gatewayVars
    /\ UNCHANGED translationVars

\* deliverResponse after saveMessage: await this.router.send(groupId, text)
DeliverSaved(t) ==
    /\ t \in tasks
    /\ t.fn = "deliverResponse"
    /\ t.pc = "save"
    /\ db' = saveMessage(db, [id |-> t.id, groupId |-> t.groupId, content |-> t.text,
                              isFromMe |-> TRUE, isTrigger |-> FALSE])
    /\ tasks' = (tasks \ {t}) \cup {[t EXCEPT !.pc = "send"]}
    /\ UNCHANGED <<apiKey, provider, state, messageQueue, processing, sent, received>>
    /\ UNCHANGED <<pendingScheduledTasks, events, fired, compactions>>
    /\ UNCHANGED workerVars
    /\ UNCHANGED gatewayVars
    /\ UNCHANGED translationVars

\* if (this.pendingScheduledTasks.has(groupId)) { delete; playNotificationChime() }
chime(o, groupId) ==
    IF groupId \in o.pendingScheduledTasks
    THEN [o EXCEPT !.pendingScheduledTasks = @ \ {groupId},
                   !.events = Append(@, Ev("chime", groupId))]
    ELSE o

\* deliverResponse after router.send: the chime, emit 'message' and 'typing',
\* setState('idle')
DeliverSent(t) ==
    /\ t \in tasks
    /\ t.fn = "deliverResponse"
    /\ t.pc = "send"
    /\ sent' = Append(sent, [groupId |-> t.groupId, text |-> t.text, id |-> t.id])
    /\ LET o1 == chime([Orch EXCEPT !.tasks = @ \ {t}], t.groupId)
           o2 == [o1 EXCEPT !.events = @ \o <<Ev("message", t.groupId),
                                              Ev("typing-end", t.groupId)>>]
       IN SetOrch(setState(o2, "idle"))
    /\ UNCHANGED <<apiKey, provider, db, received, fired, compactions>>
    /\ UNCHANGED workerVars
    /\ UNCHANGED gatewayVars
    /\ UNCHANGED translationVars

\* compactContext(groupId) up to its first await
CompactContext(groupId) ==
    /\ compactions < MaxCompactions
    /\ compactions' = compactions + 1
    /\ IF ~isConfigured \/ state # "idle"
       THEN SetOrch([Orch EXCEPT !.events = Append(@, Ev("error", groupId))])
       ELSE LET o1 == setState(Orch, "thinking")
            IN SetOrch([o1 EXCEPT !.events = Append(@, Ev("typing", groupId)),
                                  !.tasks = @ \cup
                                      {[fn |-> "compactContext", pc |-> "context",
                                        id |-> <<"compact", compactions + 1>>,
                                        groupId |-> groupId, text |-> <<>>,
                                        viaQueue |-> FALSE]}])
    /\ UNCHANGED <<apiKey, provider, db, sent, received, fired>>
    /\ UNCHANGED workerVars
    /\ UNCHANGED gatewayVars
    /\ UNCHANGED translationVars

\* compactContext after readGroupFile and buildConversationMessages: the
\* compact command is posted
CompactPosts(t) ==
    /\ t \in tasks
    /\ t.fn = "compactContext"
    /\ inbox' = Append(inbox,
          [type |-> "compact",
           payload |-> [groupId |-> t.groupId, trigger |-> t.id,
                        messages |-> buildConversationMessages(db, t.groupId,
                                                               CONTEXT_WINDOW_SIZE)]])
    /\ tasks' = tasks \ {t}
    /\ UNCHANGED <<apiKey, provider, state, messageQueue, processing, db, sent, received>>
    /\ UNCHANGED <<pendingScheduledTasks, events, fired, compactions>>
    /\ UNCHANGED <<script, outbox, runs, autoContinueCount>>
    /\ UNCHANGED gatewayVars
    /\ UNCHANGED translationVars

\* handleCompactDone after clearGroupMessages: await saveMessage(stored)
CompactCleared(t) ==
    /\ t \in tasks
    /\ t.fn = "handleCompactDone"
    /\ t.pc = "clear"
    /\ db' = clearGroupMessages(db, t.groupId)
    /\ tasks' = (tasks \ {t}) \cup {[t EXCEPT !.pc = "save"]}
    /\ UNCHANGED <<apiKey, provider, state, messageQueue, processing, sent, received>>
    /\ UNCHANGED <<pendingScheduledTasks, events, fired, compactions>>
    /\ UNCHANGED workerVars
    /\ UNCHANGED gatewayVars
    /\ UNCHANGED translationVars

\* handleCompactDone after saveMessage: emit 'context-compacted' and 'typing',
\* setState('idle')
CompactSaved(t) ==
    /\ t \in tasks
    /\ t.fn = "handleCompactDone"
    /\ t.pc = "save"
    /\ db' = saveMessage(db, [id |-> t.id, groupId |-> t.groupId,
                              content |-> <<"Context Compacted">> \o t.text,
                              isFromMe |-> TRUE, isTrigger |-> FALSE])
    /\ LET o == [Orch EXCEPT !.tasks = @ \ {t},
                             !.events = @ \o <<Ev("context-compacted", t.groupId),
                                               Ev("typing-end", t.groupId)>>]
       IN SetOrch(setState(o, "idle"))
    /\ UNCHANGED <<apiKey, provider, sent, received, fired, compactions>>
    /\ UNCHANGED workerVars
    /\ UNCHANGED gatewayVars
    /\ UNCHANGED translationVars

\* self.onmessage, case 'compact': handleCompact up to its fetch
WorkerOnCompact ==
    /\ inbox # <<>>
    /\ Head(inbox).type = "compact"
    /\ inbox' = Tail(inbox)
    /\ runs' = Append(runs, [NewRun(Head(inbox).payload) EXCEPT !.pc = "compact"])
    /\ UNCHANGED <<script, outbox, autoContinueCount>>
    /\ UNCHANGED orchVars
    /\ UNCHANGED gatewayVars
    /\ UNCHANGED translationVars

\* handleCompact after its fetch: the summary, or the error of the catch block
CompactReplies(r, ok) ==
    /\ runs[r].pc = "compact"
    /\ runs' = [runs EXCEPT ![r].pc = "done"]
    /\ outbox' = Append(outbox,
          IF ok
          THEN [run |-> r, groupId |-> runs[r].groupId, type |-> "compact-done",
                summary |-> <<"summary">>]
          ELSE [run |-> r, groupId |-> runs[r].groupId, type |-> "error",
                error |-> <<"Compaction failed: ", "fetch failed">>])
    /\ UNCHANGED <<script, inbox, autoContinueCount>>
    /\ UNCHANGED orchVars
    /\ UNCHANGED gatewayVars
    /\ UNCHANGED translationVars

Configurations ==
    {<<"sk-ant", "anthropic">>, <<"", "anthropic">>, <<"", "copilot-proxy">>}

InitOrchestrator ==
    /\ state = "idle"
    /\ messageQueue = <<>>
    /\ processing = FALSE
    /\ tasks = {}
    /\ db = <<>>
    /\ sent = <<>>
    /\ received = 0
    /\ pendingScheduledTasks = {}
    /\ events = <<>>
    /\ fired = 0
    /\ compactions = 0

\* The backends of the end-to-end model: an error at once, or a tool-use turn
\* and then text.
OrchestratorScripts ==
    {[head |-> "tool", switchAt |-> 1, mid |-> "http", tail |-> "http"],
     [head |-> "tools2", switchAt |-> 2, mid |-> "text", tail |-> "text"]}

Init ==
    /\ script \in OrchestratorScripts
    /\ inbox = <<>>
    /\ outbox = <<>>
    /\ runs = <<>>
    /\ autoContinueCount = 0
    /\ \E c \in Configurations : apiKey = c[1] /\ provider = c[2]
    /\ InitOrchestrator
    /\ InitTranslationsIdle
    /\ InitGatewayIdle

\* What the main thread and the worker do once a message or a prompt is in.
OrchestratorStep ==
    \/ \E t \in tasks : EnqueueSaved(t)
    \/ \E t \in tasks : InvokeAgentPosts(t)
    \/ \E t \in tasks : InvokeAgentFails(t)
    \/ HandleWorkerMessage
    \/ \E t \in tasks : DeliverSaved(t)
    \/ \E t \in tasks : DeliverSent(t)
    \/ WorkerStep

Next ==
    \/ \E g \in Groups, c \in Contents : Enqueue(g, c)
    \/ OrchestratorStep

Spec == Init /\ [][Next]_vars

\* Every pending callback of the main thread and every worker step runs in the end.
FairSpec == Spec /\ WF_vars(OrchestratorStep)

-----------------------------------------------------------------------------
(* The Orchestrator with the task scheduler *)

InitScheduler ==
    /\ script \in OrchestratorScripts
    /\ inbox = <<>>
    /\ outbox = <<>>
    /\ runs = <<>>
    /\ autoContinueCount = 0
    /\ apiKey = "sk-ant"
    /\ provider = "anthropic"
    /\ InitOrchestrator
    /\ InitTranslationsIdle
    /\ InitGatewayIdle

\* MaxInbound bounds the triggers of both kinds together.
NextScheduler ==
    \/ \E g \in Groups : received + fired < MaxInbound /\ Enqueue(g, <<"hi">>)
    \/ \E g \in Groups : received + fired < MaxInbound /\ SchedulerFires(g)
    \/ \E t \in tasks : ScheduledSaved(t)
    \/ OrchestratorStep

SpecScheduler == InitScheduler /\ [][NextScheduler]_vars

-----------------------------------------------------------------------------
(* The Orchestrator with context compaction *)

\* MaxInbound bounds the messages and the compactions together.
NextCompaction ==
    \/ \E g \in Groups : received + compactions < MaxInbound /\ Enqueue(g, <<"hi">>)
    \/ \E g \in Groups : received + compactions < MaxInbound /\ CompactContext(g)
    \/ \E t \in tasks : CompactPosts(t)
    \/ \E t \in tasks : CompactCleared(t)
    \/ \E t \in tasks : CompactSaved(t)
    \/ WorkerOnCompact
    \/ \E r \in 1..Len(runs), ok \in BOOLEAN : CompactReplies(r, ok)
    \/ OrchestratorStep

SpecCompaction == Init /\ [][NextCompaction]_vars

-----------------------------------------------------------------------------
(* The worker alone: invoke commands arrive whenever the main thread posts them *)

\* Worker.postMessage({type: 'invoke', payload})
PostInvoke ==
    /\ Len(inbox) + Len(runs) < MaxRuns
    /\ inbox' = Append(inbox, [type |-> "invoke",
                               payload |-> [groupId |-> DEFAULT_GROUP_ID,
                                            trigger |-> <<"in", 0>>,
                                            messages |-> InitialMessages]])
    /\ UNCHANGED <<script, outbox, runs, autoContinueCount>>
    /\ UNCHANGED orchVars
    /\ UNCHANGED gatewayVars
    /\ UNCHANGED translationVars

\* agentWorker.onmessage fires for the event at the head of the outbox
MainReceives ==
    /\ outbox # <<>>
    /\ outbox' = Tail(outbox)
    /\ UNCHANGED <<script, inbox, runs, autoContinueCount>>
    /\ UNCHANGED orchVars
    /\ UNCHANGED gatewayVars
    /\ UNCHANGED translationVars

InitWorker ==
    /\ script \in WorkerScripts
    /\ inbox = <<>>
    /\ outbox = <<>>
    /\ runs = <<>>
    /\ autoContinueCount = 0
    /\ apiKey = "sk-ant"
    /\ provider = "anthropic"
    /\ InitOrchestrator
    /\ InitTranslationsIdle
    /\ InitGatewayIdle

NextWorker ==
    \/ PostInvoke
    \/ MainReceives
    \/ WorkerStep

SpecWorker == InitWorker /\ [][NextWorker]_vars

\* A step of run r: its backend call returns or fails, or its tool call returns.
RunStep(r) ==
    /\ r \in 1..Len(runs)
    /\ BackendFails(r) \/ ToolUseTurn(r) \/ ToolReturns(r) \/ TextTurn(r)

-----------------------------------------------------------------------------
(* The worker alone, with cancel commands *)

MaxCancels == 1

Active(r) == runs[r].pc # "done"

CancelsSent ==
    Len(SelectSeq(inbox, LAMBDA c : c.type = "cancel"))
        + Len(SelectSeq(runs, LAMBDA run : run.cancelled))

\* Worker.postMessage({type: 'cancel', payload}) while a run is going on
PostCancel ==
    /\ \E r \in 1..Len(runs) : Active(r)
    /\ CancelsSent < MaxCancels
    /\ inbox' = Append(inbox, [type |-> "cancel",
                               payload |-> [groupId |-> DEFAULT_GROUP_ID]])
    /\ UNCHANGED <<script, outbox, runs, autoContinueCount>>
    /\ UNCHANGED orchVars
    /\ UNCHANGED gatewayVars
    /\ UNCHANGED translationVars

\* self.onmessage, case 'cancel': the handler breaks out of the switch and
\* returns. The worker keeps nothing of the command; the run records note that
\* it was delivered while they were going on, and nothing reads the note.
WorkerOnCancel ==
    /\ inbox # <<>>
    /\ Head(inbox).type = "cancel"
    /\ inbox' = Tail(inbox)
    /\ runs' = [r \in 1..Len(runs) |->
                   IF Active(r) THEN [runs[r] EXCEPT !.cancelled = TRUE] ELSE runs[r]]
    /\ UNCHANGED <<script, outbox, autoContinueCount>>
    /\ UNCHANGED orchVars
    /\ UNCHANGED gatewayVars
    /\ UNCHANGED translationVars

NextCancel ==
    \/ PostInvoke
    \/ PostCancel
    \/ MainReceives
    \/ WorkerOnCancel
    \/ WorkerStep

SpecCancel == InitWorker /\ [][NextCancel]_vars

-----------------------------------------------------------------------------
(* The proxy server alone *)

\* let githubToken = process.env.GITHUB_TOKEN || ''; let copilotToken = null
InitGateway ==
    /\ script \in {[head |-> "tool", switchAt |-> 1, mid |-> "text", tail |-> "text"]}
    /\ inbox = <<>>
    /\ outbox = <<>>
    /\ runs = <<>>
    /\ autoContinueCount = 0
    /\ apiKey = ""
    /\ provider = "copilot-proxy"
    /\ InitOrchestrator
    /\ InitTranslationsIdle
    /\ githubToken \in {""} \cup GoodCredentials \cup BadCredentials
    /\ copilotToken = NoToken
    /\ now = 0
    /\ reqs = <<>>

NextGateway ==
    \/ \E raw \in RawTokens : PostGithubToken(raw)
    \/ \E model \in RequestModels, max_tokens \in RequestMaxTokens :
          PostMessages(model, max_tokens)
    \/ GetAuthStatus
    \/ \E q \in 1..Len(reqs) : \E answer \in IssuerAnswers(reqs[q].credential) :
          IssuerReplies(q, answer)
    \/ \E q \in 1..Len(reqs) : \E answer \in BackendAnswers : BackendReplies(q, answer)
    \/ Tick

SpecGateway == InitGateway /\ [][NextGateway]_vars

-----------------------------------------------------------------------------
(* The proxy server alone, with its health and relay routes *)

\* copilotToken?.expires_at ? new Date(...).toISOString() : null; 0 stands for null
Expiry(cached) == IF cached = NoToken THEN 0 ELSE cached.expires_at

\* A health route that drops a cached token that is due for a refresh.
GetHealthDroppingExpired ==
    /\ Len(reqs) < MaxRequests
    /\ reqs' = Append(reqs, Done(NewRequest("health", "", NoModel, 0),
                                 [status |-> 200, type |-> "ok",
                                  error |-> <<githubToken # "", copilotToken # NoToken,
                                              Expiry(copilotToken)>>]))
    /\ copilotToken' = IF NeedsRefresh(copilotToken, now) THEN NoToken ELSE copilotToken
    /\ UNCHANGED <<githubToken, now>>
    /\ UNCHANGED workerVars
    /\ UNCHANGED orchVars
    /\ UNCHANGED translationVars

\* app.get('/health')
GetHealth ==
    /\ Len(reqs) < MaxRequests
    /\ reqs' = Append(reqs, Done(NewRequest("health", "", NoModel, 0),
                                 [status |-> 200, type |-> "ok",
                                  error |-> <<githubToken # "", copilotToken # NoToken,
                                              Expiry(copilotToken)>>]))
    /\ UNCHANGED <<githubToken, copilotToken, now>>
    /\ UNCHANGED workerVars
    /\ UNCHANGED orchVars
    /\ UNCHANGED translationVars

\* The target of a relayed request; "" stands for a request without one.
RelayTargets == {"", "https://example.org/"}

\* app.all('/cors-proxy') up to its fetch of the target
CorsProxy(target) ==
    /\ Len(reqs) < MaxRequests
    /\ reqs' = Append(reqs,
                      IF target = ""
                      THEN Done(NewRequest("relay", "", NoModel, 0),
                                [status |-> 400, type |-> "error",
                                 error |-> <<"Missing target URL">>])
                      ELSE [NewRequest("relay", "", NoModel, 0) EXCEPT
                               !.pc = "relay", !.url = target])
    /\ UNCHANGED <<githubToken, copilotToken, now>>
    /\ UNCHANGED workerVars
    /\ UNCHANGED orchVars
    /\ UNCHANGED translationVars

RelayAnswers ==
    {[kind |-> "ok", status |-> 200, body |-> "page", token |-> NoToken],
     [kind |-> "status", status |-> 404, body |-> "not found", token |-> NoToken],
     [kind |-> "net", status |-> 0, body |-> "", token |-> NoToken]}

\* app.all('/cors-proxy') after its fetch: the target's status and body, or 502
RelayReplies(q, answer) ==
    /\ reqs[q].pc = "relay"
    /\ answer \in RelayAnswers
    /\ LET req == [reqs[q] EXCEPT !.backend = answer]
           reply == IF answer.kind = "net"
                    THEN [status |-> 502, type |-> "error",
                          error |-> <<"Failed to fetch", "fetch failed">>]
                    ELSE [status |-> answer.status, type |-> "relayed",
                          error |-> <<answer.body>>]
       IN reqs' = [reqs EXCEPT ![q] = Done(req, reply)]
    /\ UNCHANGED <<githubToken, copilotToken, now>>
    /\ UNCHANGED workerVars
    /\ UNCHANGED orchVars
    /\ UNCHANGED translationVars

NextRoutes ==
    \/ \E raw \in RawTokens : PostGithubToken(raw)
    \/ PostMessages(NoModel, 0)
    \/ GetAuthStatus
    \/ GetHealth
    \/ \E target \in RelayTargets : CorsProxy(target)
    \/ \E q \in 1..Len(reqs) : \E answer \in IssuerAnswers(reqs[q].credential) :
          IssuerReplies(q, answer)
    \/ \E q \in 1..Len(reqs) : \E answer \in BackendAnswers : BackendReplies(q, answer)
    \/ \E q \in 1..Len(reqs) : \E answer \in RelayAnswers : RelayReplies(q, answer)
    \/ Tick

SpecRoutes == InitGateway /\ [][NextRoutes]_vars

-----------------------------------------------------------------------------
(* The translations: anthropicToOpenAI *)

\* A JavaScript value that is a text, null or undefined
Str(t) == [js |-> "string", text |-> t]

Null == [js |-> "null", text |-> <<>>]

Undefined == [js |-> "undefined", text |-> <<>>]

\* !v, for a text, null or undefined
Falsy(v) == v.js # "string" \/ v.text = <<>>

\* A JSON value: a text, the object {"path": text} or the array [{"type":"text","text": text}]
JsonString(t) == [json |-> "string", text |-> t]

JsonObject(t) == [json |-> "object", text |-> t]

JsonArray(t) == [json |-> "array", text |-> t]

Quoted(t) == <<"\"">> \o t \o <<"\"">>

\* JSON.stringify(v)
Stringify(v) ==
    CASE v.json = "string" -> Quoted(v.text)
      [] v.json = "object" -> <<"{", "\"", "path", "\"", ":">> \o Quoted(v.text) \o <<"}">>
      [] v.json = "array" ->
            <<"[", "{", "\"", "type", "\"", ":", "\"", "text", "\"", ",",
              "\"", "text", "\"", ":">> \o Quoted(v.text) \o <<"}", "]">>

ToolUseWithInput(id, name, in) ==
    [type |-> "tool_use", id |-> id, name |-> name, input |-> in]

ToolResultBlock(id, content) ==
    [type |-> "tool_result", tool_use_id |-> id, content |-> content]

ImageBlock == [type |-> "image"]

\* A message whose content is neither a string nor an array
OtherMessage(role) == [role |-> role, kind |-> "other"]

\* body.system: missing, a string, an array of blocks, or another value
NoSystem == [kind |-> "absent"]

StringSystem(t) == [kind |-> "string", text |-> t]

BlocksSystem(blocks) == [kind |-> "blocks", blocks |-> blocks]

NumberSystem(n) == [kind |-> "number", text |-> <<n>>]

\* if (body.system)
SystemTruthy(system) ==
    CASE system.kind = "absent" -> FALSE
      [] system.kind = "string" -> system.text # <<>>
      [] system.kind = "blocks" -> TRUE
      [] system.kind = "number" -> system.text # <<"0">>

\* parts.join(sep)
RECURSIVE Join(_, _)
Join(parts, sep) ==
    IF parts = <<>> THEN <<>>
    ELSE IF Len(parts) = 1 THEN parts[1]
    ELSE parts[1] \o <<sep>> \o Join(Tail(parts), sep)

\* b.text || ''
TextOrEmpty(b) == IF b.type = "text" THEN b.text ELSE <<>>

\* typeof body.system === 'string' ? ... : Array.isArray(body.system) ? ... : String(body.system)
systemText(system) ==
    CASE system.kind = "string" -> system.text
      [] system.kind = "blocks" ->
            Join([i \in 1..Len(system.blocks) |-> TextOrEmpty(system.blocks[i])], "\n")
      [] system.kind = "number" -> system.text

ChatMessage(role, content, tool_calls, tool_call_id) ==
    [role |-> role, content |-> content, tool_calls |-> tool_calls,
     tool_call_id |-> tool_call_id]

\* toolCalls.push({id, type: 'function', function: {name, arguments}})
toolCall(block) ==
    [id |-> block.id, type |-> "function",
     function |-> [name |-> block.name, arguments |-> Stringify(block.input)]]

\* toolResults.push({role: 'tool', tool_call_id, content})
toolResult(block) ==
    ChatMessage("tool",
                Str(IF block.content.json = "string" THEN block.content.text
                    ELSE Stringify(block.content)),
                <<>>, block.tool_use_id)

OfType(blocks, type) == SelectSeq(blocks, LAMBDA b : b.type = type)

msgObjNeverNull(role, parts, calls) ==
    ChatMessage(role, Str(Join(parts, "\n")), calls, "")

\* const msgObj = {role: msg.role}; ...; messages.push(msgObj)
msgObj(role, parts, calls) ==
    LET joined == IF Len(parts) > 0 THEN Str(Join(parts, "\n")) ELSE Undefined
        withCalls == IF Len(calls) > 0 /\ Falsy(joined) THEN Null ELSE joined
        content == IF Falsy(withCalls) /\ Len(calls) = 0 THEN Str(<<>>) ELSE withCalls
    IN ChatMessage(role, content, calls, "")

\* The body of the loop over body.messages: what one message pushes
convertMessage(msg) ==
    CASE msg.kind = "string" -> <<ChatMessage(msg.role, Str(msg.text), <<>>, "")>>
      [] msg.kind = "blocks" ->
            LET texts == OfType(msg.blocks, "text")
                uses == OfType(msg.blocks, "tool_use")
                results == OfType(msg.blocks, "tool_result")
                textParts == [i \in 1..Len(texts) |-> texts[i].text]
                toolCalls == [i \in 1..Len(uses) |-> toolCall(uses[i])]
                toolResults == [i \in 1..Len(results) |-> toolResult(results[i])]
            IN IF Len(toolResults) > 0 THEN toolResults
               ELSE <<msgObj(msg.role, textParts, toolCalls)>>
      [] OTHER -> <<>>

RECURSIVE convertMessages(_)
convertMessages(msgs) ==
    IF msgs = <<>> THEN <<>>
    ELSE convertMessage(Head(msgs)) \o convertMessages(Tail(msgs))

\* tools = body.tools.map(t => ({type: 'function', function: {...}}))
convertTools(tools) ==
    [i \in 1..Len(tools) |->
        [type |-> "function",
         function |-> [name |-> tools[i].name, description |-> tools[i].description,
                       parameters |-> tools[i].input_schema]]]

anthropicToOpenAI(body) ==
    [model |-> mapModelToCopilot(body.model),
     messages |-> (IF SystemTruthy(body.system)
                   THEN <<ChatMessage("system", Str(systemText(body.system)), <<>>, "")>>
                   ELSE <<>>) \o convertMessages(body.messages),
     max_tokens |-> IF body.max_tokens = 0 THEN 4096 ELSE body.max_tokens,
     temperature |-> <<"0", ".", "5">>,
     stream |-> FALSE,
     tools |-> convertTools(body.tools)]

-----------------------------------------------------------------------------
(* The translations: anthropicToResponsesAPI *)

\* JSON.stringify({type: 'text', text})
StringifyTextBlock(t) ==
    <<"{", "\"", "type", "\"", ":", "\"", "text", "\"", ",",
      "\"", "text", "\"", ":">> \o Quoted(t) \o <<"}">>

\* `call_${crypto.randomUUID().replace(/-/g, '').slice(0, 12)}`, uuid being
\* what randomUUID returned
SyntheticCallId(uuid) == <<"call_", uuid>>

\* An identifier the caller gave, as a text; <<>> stands for a missing one.
GivenId(id) == IF id = "" THEN <<>> ELSE <<id>>

InputMessage(role, content) == [type |-> "", role |-> role, content |-> content]

\* typeof b.content === 'string' ? ... : Array.isArray(b.content) ? ... : JSON.stringify(b.content)
toolResultOutput(content) ==
    CASE content.json = "string" -> content.text
      [] content.json = "array" ->
            IF content.text # <<>> THEN content.text ELSE StringifyTextBlock(content.text)
      [] content.json = "object" -> Stringify(content)

functionCallOutput(b) ==
    [type |-> "function_call_output", call_id |-> GivenId(b.tool_use_id),
     output |-> toolResultOutput(b.content)]

\* input.push({type: 'function_call', name, arguments, call_id: b.id || `call_...`})
functionCall(b, uuid) ==
    [type |-> "function_call", name |-> b.name, arguments |-> Stringify(b.input),
     call_id |-> IF b.id # "" THEN GivenId(b.id) ELSE SyntheticCallId(uuid)]

\* if (textParts.length > 0) input.push({role, content: textParts.join('\n')})
flush(role, textParts) ==
    IF Len(textParts) > 0 THEN <<InputMessage(role, Join(textParts, "\n"))>> ELSE <<>>

\* The loop over the blocks of a user message, from block i on, with the
\* texts collected so far
RECURSIVE userBlocksUnflushed(_, _, _)
userBlocksUnflushed(blocks, i, textParts) ==
    IF i > Len(blocks) THEN flush("user", textParts)
    ELSE CASE blocks[i].type = "text" ->
                 userBlocksUnflushed(blocks, i + 1, Append(textParts, blocks[i].text))
           [] blocks[i].type = "tool_result" ->
                 <<functionCallOutput(blocks[i])>>
                 \o userBlocksUnflushed(blocks, i + 1, textParts)
           [] OTHER -> userBlocksUnflushed(blocks, i + 1, textParts)

RECURSIVE userBlocks(_, _, _)
userBlocks(blocks, i, textParts) ==
    IF i > Len(blocks) THEN flush("user", textParts)
    ELSE CASE blocks[i].type = "text" ->
                 userBlocks(blocks, i + 1, Append(textParts, blocks[i].text))
           [] blocks[i].type = "tool_result" ->
                 flush("user", textParts) \o <<functionCallOutput(blocks[i])>>
                 \o userBlocks(blocks, i + 1, <<>>)
           [] OTHER -> userBlocks(blocks, i + 1, textParts)

\* The loop over the blocks of an assistant message; uuids are the values
\* randomUUID has still to return
RECURSIVE assistantBlocks(_, _, _, _)
assistantBlocks(blocks, i, textParts, uuids) ==
    IF i > Len(blocks) THEN flush("assistant", textParts)
    ELSE CASE blocks[i].type = "text" /\ blocks[i].text # <<>> ->
                 assistantBlocks(blocks, i + 1, Append(textParts, blocks[i].text), uuids)
           [] blocks[i].type = "tool_use" ->
                 flush("assistant", textParts)
                 \o <<functionCall(blocks[i], Head(uuids))>>
                 \o assistantBlocks(blocks, i + 1, <<>>,
                                    IF blocks[i].id # "" THEN uuids ELSE Tail(uuids))
           [] OTHER -> assistantBlocks(blocks, i + 1, textParts, uuids)

\* How many values of randomUUID the message uses
Synthesized(msg) ==
    IF msg.role = "assistant" /\ msg.kind = "blocks"
    THEN Len(SelectSeq(msg.blocks, LAMBDA b : b.type = "tool_use" /\ b.id = ""))
    ELSE 0

\* The body of the loop over body.messages: what one message pushes
inputItems(msg, uuids) ==
    CASE msg.kind = "string" /\ msg.role \in {"user", "assistant"} ->
            <<InputMessage(msg.role, msg.text)>>
      [] msg.kind = "blocks" /\ msg.role = "user" -> userBlocks(msg.blocks, 1, <<>>)
      [] msg.kind = "blocks" /\ msg.role = "assistant" ->
            assistantBlocks(msg.blocks, 1, <<>>, uuids)
      [] OTHER -> <<>>

RECURSIVE allInputItems(_, _)
allInputItems(msgs, uuids) ==
    IF msgs = <<>> THEN <<>>
    ELSE inputItems(Head(msgs), uuids)
         \o allInputItems(Tail(msgs),
                          SubSeq(uuids, Synthesized(Head(msgs)) + 1, Len(uuids)))

\* tools = body.tools.map(t => ({type: 'function', name, description, parameters}))
responsesTools(tools) ==
    [i \in 1..Len(tools) |->
        [type |-> "function", name |-> tools[i].name,
         description |-> tools[i].description, parameters |-> tools[i].input_schema]]

anthropicToResponsesAPI(body, uuids) ==
    [model |-> mapModelToCopilot(body.model),
     input |-> (IF SystemTruthy(body.system)
                THEN <<InputMessage("developer", systemText(body.system))>>
                ELSE <<>>) \o allInputItems(body.messages, uuids),
     max_output_tokens |-> IF body.max_tokens = 0 THEN 4096 ELSE body.max_tokens,
     stream |-> FALSE,
     tools |-> responsesTools(body.tools)]

-----------------------------------------------------------------------------
(* The translations: responsesAPIToAnthropic *)

\* The texts a tool's arguments may hold
ArgumentTexts == {<<>>, <<"a.txt">>, <<"b.txt">>}

EmptyObject == [json |-> "empty", text |-> <<>>]

\* {raw: arguments}
RawObject(arguments) == [json |-> "raw", text |-> arguments]

\* JSON.parse(s): the value, or a SyntaxError
JsonParse(s) ==
    IF s = <<"{", "}">> THEN [ok |-> TRUE, value |-> EmptyObject]
    ELSE IF \E t \in ArgumentTexts : s = Stringify(JsonObject(t))
    THEN [ok |-> TRUE,
          value |-> JsonObject(CHOOSE t \in ArgumentTexts : s = Stringify(JsonObject(t)))]
    ELSE [ok |-> FALSE, value |-> EmptyObject]

\* try { parsedArgs = JSON.parse(arguments || '{}') } catch { parsedArgs = {raw: arguments} }
parsedArgs(arguments) ==
    LET parsed == JsonParse(IF arguments = <<>> THEN <<"{", "}">> ELSE arguments)
    IN IF parsed.ok THEN parsed.value ELSE RawObject(arguments)

\* An item of response.output.  A missing call_id, id or arguments is "" or <<>>.
MessageItem(content) == [type |-> "message", content |-> content]

FunctionCallItem(call_id, id, name, arguments) ==
    [type |-> "function_call", call_id |-> call_id, id |-> id, name |-> name,
     arguments |-> arguments]

\* null where an item should be
NullItem == [type |-> "null"]

\* item.content: an array of blocks, missing, or a number
BlocksContent(blocks) == [kind |-> "blocks", blocks |-> blocks]

NoContent == [kind |-> "absent", blocks |-> <<>>]

NumberContent == [kind |-> "number", blocks |-> <<>>]

OutputText(t) == [type |-> "output_text", text |-> t]

Refusal == [type |-> "refusal", text |-> <<"no">>]

ToolUseOut(id, name, in) == [type |-> "tool_use", id |-> id, name |-> name, input |-> in]

TypeError == [threw |-> TRUE]

\* for (const block of item.content) if (block.type === 'output_text' && block.text) ...
outputTexts(blocks) ==
    LET kept == SelectSeq(blocks, LAMBDA b : b.type = "output_text" /\ b.text # <<>>)
    IN [i \in 1..Len(kept) |-> TextBlock(kept[i].text)]

\* id: item.call_id || item.id || `call_...`
toolUseId(item, uuid) ==
    IF item.call_id # "" THEN <<item.call_id>>
    ELSE IF item.id # "" THEN <<item.id>>
    ELSE SyntheticCallId(uuid)

\* The loop over response.output from item i on: the content, whether a
\* function_call was met, and the values of randomUUID left; or a TypeError.
RECURSIVE outputItems(_, _, _, _, _)
outputItems(items, i, content, hasToolCalls, uuids) ==
    IF i > Len(items)
    THEN [threw |-> FALSE, content |-> content, hasToolCalls |-> hasToolCalls,
          uuids |-> uuids]
    ELSE LET item == items[i]
         IN CASE item.type = "null" -> TypeError
              [] item.type = "message" /\ item.content.kind = "number" -> TypeError
              [] item.type = "message" /\ item.content.kind = "blocks" ->
                    outputItems(items, i + 1, content \o outputTexts(item.content.blocks),
                                hasToolCalls, uuids)
              [] item.type = "function_call" ->
                    outputItems(items, i + 1,
                                Append(content,
                                       ToolUseOut(toolUseId(item, Head(uuids)), item.name,
                                                  parsedArgs(item.arguments))),
                                TRUE,
                                IF item.call_id = "" /\ item.id = "" THEN Tail(uuids)
                                ELSE uuids)
              [] OTHER -> outputItems(items, i + 1, content, hasToolCalls, uuids)

contentOrEmpty(content) == content

\* if (content.length === 0) content.push({type: 'text', text: ''})
contentOrEmptyText(content) ==
    IF Len(content) = 0 THEN <<TextBlock(<<>>)>> ELSE content

\* let stop_reason = 'end_turn'; if (hasToolCalls) ... else if (response.status !== 'completed') ...
stopReasonOfResponse(hasToolCalls, status) ==
    IF hasToolCalls THEN "tool_use"
    ELSE IF status # "completed" THEN "max_tokens"
    ELSE "end_turn"

\* `msg_${crypto.randomUUID().replace(/-/g, '').slice(0, 20)}`
MessageId(uuid) == <<"msg_", uuid>>

\* response.usage?.input_tokens || 0
Usage(in, out) ==
    [input_tokens |-> in, output_tokens |-> out, cache_read_input_tokens |-> 0,
     cache_creation_input_tokens |-> 0]

responsesAPIToAnthropic(response, model, uuids) ==
    LET loop == IF response.output.kind = "array"
                THEN outputItems(response.output.items, 1, <<>>, FALSE, uuids)
                ELSE [threw |-> FALSE, content |-> <<>>, hasToolCalls |-> FALSE,
                      uuids |-> uuids]
    IN IF loop.threw THEN TypeError
       ELSE [threw |-> FALSE,
             id |-> MessageId(Head(loop.uuids)),
             type |-> "message",
             role |-> "assistant",
             content |-> contentOrEmptyText(loop.content),
             model |-> model,
             stop_reason |-> stopReasonOfResponse(loop.hasToolCalls, response.status),
             usage |-> Usage(response.usage.input_tokens, response.usage.output_tokens)]

-----------------------------------------------------------------------------
(* The translations: openAIToAnthropic *)

\* A tool call of choice.message.tool_calls; a missing id is "", a missing
\* function NoFunction.
NoFunction == [given |-> FALSE, name |-> "", arguments |-> <<>>]

Function(name, arguments) == [given |-> TRUE, name |-> name, arguments |-> arguments]

ToolCall(id, function) == [id |-> id, function |-> function]

\* choice.message.tool_calls: missing, an array, or an object that is no array
NoToolCalls == [kind |-> "absent", calls |-> <<>>]

ToolCallArray(calls) == [kind |-> "array", calls |-> calls]

ToolCallObject == [kind |-> "object", calls |-> <<>>]

\* choice.message; a missing or null content is <<>>
NoMessage == [given |-> FALSE, content |-> <<>>, tool_calls |-> NoToolCalls]

Message(content, tool_calls) ==
    [given |-> TRUE, content |-> content, tool_calls |-> tool_calls]

Choice(message, finish_reason) == [message |-> message, finish_reason |-> finish_reason]

FallbackText == <<"(empty response from model)">>

\* The value returned when there is no first choice
Fallback(model, uuid) ==
    [threw |-> FALSE,
     id |-> MessageId(uuid),
     type |-> "message",
     role |-> "assistant",
     content |-> <<TextBlock(FallbackText)>>,
     model |-> model,
     stop_reason |-> "end_turn",
     usage |-> [input_tokens |-> 0, output_tokens |-> 0]]

\* The loop over choice.message.tool_calls: the tool_use blocks, or a TypeError
\* when a tool call has no function
toolUses(calls) ==
    IF \E i \in 1..Len(calls) : ~calls[i].function.given THEN TypeError
    ELSE [threw |-> FALSE,
          content |-> [i \in 1..Len(calls) |->
                          ToolUseOut(GivenId(calls[i].id), calls[i].function.name,
                                     parsedArgs(calls[i].function.arguments))]]

stopReasonOfChoiceStopEnds(finish_reason, tool_calls) ==
    CASE finish_reason = "tool_calls" ->
            IF tool_calls.kind # "absent" /\ Len(tool_calls.calls) > 0 THEN "tool_use"
            ELSE "end_turn"
      [] finish_reason = "length" -> "max_tokens"
      [] OTHER -> "end_turn"

\* let stop_reason = 'end_turn'; if (finish_reason === 'tool_calls' || ... === 'stop') ...
stopReasonOfChoice(finish_reason, tool_calls) ==
    CASE finish_reason \in {"tool_calls", "stop"} ->
            IF tool_calls.kind # "absent" /\ Len(tool_calls.calls) > 0 THEN "tool_use"
            ELSE "end_turn"
      [] finish_reason = "length" -> "max_tokens"
      [] OTHER -> "end_turn"

openAIToAnthropic(response, model, uuids) ==
    IF response.choices = <<>> THEN Fallback(model, Head(uuids))
    ELSE LET choice == response.choices[1]
             text == IF choice.message.content # <<>>
                     THEN <<TextBlock(choice.message.content)>> ELSE <<>>
             uses == CASE choice.message.tool_calls.kind = "absent" ->
                             [threw |-> FALSE, content |-> <<>>]
                       [] choice.message.tool_calls.kind = "object" -> TypeError
                       [] choice.message.tool_calls.kind = "array" ->
                             toolUses(choice.message.tool_calls.calls)
         IN IF uses.threw THEN TypeError
            ELSE [threw |-> FALSE,
                  id |-> MessageId(Head(uuids)),
                  type |-> "message",
                  role |-> "assistant",
                  content |-> contentOrEmptyText(text \o uses.content),
                  model |-> model,
                  stop_reason |-> stopReasonOfChoice(choice.finish_reason,
                                                     choice.message.tool_calls),
                  usage |-> Usage(response.usage.prompt_tokens,
                                  response.usage.completion_tokens)]

-----------------------------------------------------------------------------
(* The translations alone *)

\* How many blocks a message has at most, and how many messages a request
MaxBlocks == 2

MaxMessages == 2

Families == {"opus", "sonnet", "haiku"}

Suffixes == {<<>>, <<"-", "fast">>, <<"-", "20250929">>}

\* The model ids a client may send: dashed Claude ids for each family and
\* version, with and without a suffix, their dotted forms, ids that put the
\* version before the family, and ids of other vendors.
ModelIds ==
    {<<"claude", "-", f, "-", "4", "-", d>> \o x :
        f \in Families, d \in {"0", "1", "5", "6"}, x \in Suffixes}
    \cup {<<"claude", "-", f, "-", "4", ".", d>> : f \in Families, d \in {"5", "6"}}
    \cup {<<"claude", "-", "opus", "-", "4", "-", "6", "0">>,
          <<"claude", "-", "3", "-", "5", "-", "sonnet">>,
          <<"claude", "-", "3", "-", "5", "-", "sonnet", "-", "20250929">>,
          <<"gpt", "-", "4", "o">>,
          <<"gpt", "-", "5", ".", "1", "-", "codex">>,
          <<"gpt", "-", "5", ".", "1", "-", "codex", "-", "mini">>,
          NoModel}

\* All sequences over S of length at most n
RECURSIVE SeqsUpTo(_, _)
SeqsUpTo(S, n) ==
    IF n = 0 THEN {<<>>}
    ELSE LET shorter == SeqsUpTo(S, n - 1)
         IN shorter \cup {Append(q, x) : q \in shorter, x \in S}

Blocks ==
    {TextBlock(<<"Y">>), TextBlock(<<"Z">>), TextBlock(<<>>), ImageBlock,
     ToolUseWithInput("", "read_file", JsonObject(<<"b.txt">>)),
     ToolUseWithInput("toolu_1", "read_file", JsonObject(<<"a.txt">>)),
     ToolUseWithInput("toolu_2", "list_files", JsonObject(<<>>)),
     ToolResultBlock("toolu_1", JsonString(<<"done">>)),
     ToolResultBlock("toolu_2", JsonArray(<<"listing">>))}

Systems ==
    {NoSystem, StringSystem(<<>>), StringSystem(<<"X">>), NumberSystem("7"),
     BlocksSystem(<<>>), BlocksSystem(<<TextBlock(<<"X">>), ImageBlock, TextBlock(<<"Z">>)>>)}

\* One message of each kind, for requests of several messages
SampleMessages ==
    {StringMessage("user", <<"Y">>),
     OtherMessage("user"),
     BlockMessage("assistant", <<TextBlock(<<"Y">>),
                                 ToolUseWithInput("toolu_1", "read_file",
                                                  JsonObject(<<"a.txt">>))>>),
     BlockMessage("user", <<ToolResultBlock("toolu_1", JsonString(<<"done">>))>>)}

MessageLists ==
    {<<BlockMessage(role, blocks)>> :
        role \in {"user", "assistant"}, blocks \in SeqsUpTo(Blocks, MaxBlocks)}
    \cup {<<StringMessage("user", <<>>)>>}
    \cup SeqsUpTo(SampleMessages, MaxMessages)

ToolCatalogs ==
    {<<>>, <<[name |-> "read_file", description |-> <<"Read", " ", "a", " ", "file">>,
              input_schema |-> JsonObject(<<"string">>)]>>}

NoBody == [model |-> NoModel, system |-> NoSystem, messages |-> <<>>,
           max_tokens |-> 0, tools |-> <<>>]

Bodies ==
    {[model |-> DefaultModel, system |-> system, messages |-> messages,
      max_tokens |-> 0, tools |-> <<>>] : system \in Systems, messages \in MessageLists}
    \cup {[model |-> model, system |-> NoSystem, messages |-> <<>>,
           max_tokens |-> max_tokens, tools |-> tools] :
            model \in RequestModels \ {NoModel}, max_tokens \in RequestMaxTokens,
            tools \in ToolCatalogs}

\* How many items a response of the Responses endpoint has at most
MaxItems == 2

OutputItems ==
    {MessageItem(BlocksContent(<<OutputText(<<"Hello">>)>>)),
     MessageItem(BlocksContent(<<OutputText(<<>>), Refusal>>)),
     MessageItem(NoContent),
     MessageItem(NumberContent),
     FunctionCallItem("call_1", "fc_1", "read_file", Stringify(JsonObject(<<"a.txt">>))),
     FunctionCallItem("", "fc_2", "read_file", <<>>),
     FunctionCallItem("", "", "list_files", <<"{", "oops">>),
     [type |-> "reasoning"],
     NullItem}

\* response.output: an array of items, or missing; response.status; response.usage,
\* where 0 stands for a missing count
Responses ==
    {[output |-> output, status |-> status, usage |-> usage] :
        output \in {[kind |-> "absent", items |-> <<>>]}
                   \cup {[kind |-> "array", items |-> items] :
                            items \in SeqsUpTo(OutputItems, MaxItems)},
        status \in {"completed", "incomplete", ""},
        usage \in {[input_tokens |-> 0, output_tokens |-> 0],
                   [input_tokens |-> 12, output_tokens |-> 7]}}

\* How many tool calls a chat completion has at most
MaxToolCalls == 2

ToolCalls ==
    {ToolCall("call_9", Function("read_file", Stringify(JsonObject(<<"a.txt">>)))),
     ToolCall("", Function("list_files", <<"{", "oops">>)),
     ToolCall("call_7", NoFunction)}

Messages ==
    {NoMessage}
    \cup {Message(content, tool_calls) :
            content \in {<<>>, <<"Hello">>},
            tool_calls \in {NoToolCalls, ToolCallObject}
                           \cup {ToolCallArray(calls) :
                                    calls \in SeqsUpTo(ToolCalls, MaxToolCalls)}}

\* A chat completion: response.choices is missing or empty (<<>>) or has a first
\* choice; in response.usage 0 stands for a missing count.
ChatResponses ==
    {[choices |-> choices, usage |-> usage] :
        choices \in {<<>>}
                    \cup {<<Choice(message, finish_reason)>> :
                             message \in Messages,
                             finish_reason \in {"stop", "tool_calls", "length",
                                                "content_filter", ""}},
        usage \in {[prompt_tokens |-> 0, completion_tokens |-> 0],
                   [prompt_tokens |-> 12, completion_tokens |-> 7]}}

\* What the calls of crypto.randomUUID return during one call of a translation,
\* in order: values that differ from each other
UUIDs == {<<"3f2a", "9c41", "07be", "d155">>, <<"07be", "3f2a", "d155", "9c41">>}

\* The calls a caller may make
Calls ==
    {[fn |-> "mapModelToCopilot", pending |-> TRUE, fed |-> FALSE, origin |-> x,
      model |-> x, body |-> NoBody] : x \in ModelIds}
    \cup {[fn |-> "anthropicToOpenAI", pending |-> TRUE, fed |-> FALSE, origin |-> NoModel,
           model |-> NoModel, body |-> body] : body \in Bodies}
    \cup {[fn |-> "anthropicToResponsesAPI", pending |-> TRUE, body |-> body,
           uuids |-> uuids] : body \in Bodies, uuids \in UUIDs}
    \cup {[fn |-> "responsesAPIToAnthropic", pending |-> TRUE, body |-> response,
           model |-> DefaultModel, uuids |-> uuids] :
            response \in Responses, uuids \in UUIDs}
    \cup {[fn |-> "openAIToAnthropic", pending |-> TRUE, body |-> response,
           model |-> DefaultModel, uuids |-> uuids] :
            response \in ChatResponses, uuids \in UUIDs}

\* mapModelToCopilot returns.
MapModel ==
    /\ called.fn = "mapModelToCopilot"
    /\ called.pending
    /\ called' = [called EXCEPT !.pending = FALSE]
    /\ returned' = [returned EXCEPT !.model = mapModelToCopilot(called.model)]
    /\ UNCHANGED workerVars
    /\ UNCHANGED orchVars
    /\ UNCHANGED gatewayVars

\* The caller passes what mapModelToCopilot returned to mapModelToCopilot again,
\* and it returns.
MapModelAgain ==
    /\ called.fn = "mapModelToCopilot"
    /\ ~called.pending
    /\ ~called.fed
    /\ called' = [called EXCEPT !.model = returned.model, !.fed = TRUE]
    /\ returned' = [returned EXCEPT !.model = mapModelToCopilot(returned.model)]
    /\ UNCHANGED workerVars
    /\ UNCHANGED orchVars
    /\ UNCHANGED gatewayVars

\* anthropicToOpenAI returns.
Translate ==
    /\ called.fn = "anthropicToOpenAI"
    /\ called.pending
    /\ called' = [called EXCEPT !.pending = FALSE]
    /\ returned' = [returned EXCEPT !.body = anthropicToOpenAI(called.body)]
    /\ UNCHANGED workerVars
    /\ UNCHANGED orchVars
    /\ UNCHANGED gatewayVars

\* anthropicToResponsesAPI returns.
TranslateForResponses ==
    /\ called.fn = "anthropicToResponsesAPI"
    /\ called.pending
    /\ called' = [called EXCEPT !.pending = FALSE]
    /\ returned' = [returned EXCEPT
                        !.body = anthropicToResponsesAPI(called.body, called.uuids)]
    /\ UNCHANGED workerVars
    /\ UNCHANGED orchVars
    /\ UNCHANGED gatewayVars

\* responsesAPIToAnthropic returns or throws.
TranslateResponse ==
    /\ called.fn = "responsesAPIToAnthropic"
    /\ called.pending
    /\ called' = [called EXCEPT !.pending = FALSE]
    /\ returned' = [returned EXCEPT
                        !.body = responsesAPIToAnthropic(called.body, called.model,
                                                         called.uuids)]
    /\ UNCHANGED workerVars
    /\ UNCHANGED orchVars
    /\ UNCHANGED gatewayVars

\* openAIToAnthropic returns or throws.
TranslateCompletion ==
    /\ called.fn = "openAIToAnthropic"
    /\ called.pending
    /\ called' = [called EXCEPT !.pending = FALSE]
    /\ returned' = [returned EXCEPT
                        !.body = openAIToAnthropic(called.body, called.model, called.uuids)]
    /\ UNCHANGED workerVars
    /\ UNCHANGED orchVars
    /\ UNCHANGED gatewayVars

InitTranslations ==
    /\ script \in {[head |-> "tool", switchAt |-> 1, mid |-> "text", tail |-> "text"]}
    /\ inbox = <<>>
    /\ outbox = <<>>
    /\ runs = <<>>
    /\ autoContinueCount = 0
    /\ apiKey = ""
    /\ provider = "copilot-proxy"
    /\ InitOrchestrator
    /\ InitGatewayIdle
    /\ called \in Calls
    /\ returned = NoReturn

NextTranslations ==
    \/ MapModel
    \/ MapModelAgain
    \/ Translate
    \/ TranslateForResponses
    \/ TranslateResponse
    \/ TranslateCompletion

SpecTranslations == InitTranslations /\ [][NextTranslations]_vars

-----------------------------------------------------------------------------
(* The tool-use loop: what a run does, read off its record *)

Run(r) == runs[r]

AlwaysKind(k) == \A n \in 1..(maxIterations + 1) : ScriptKind(script, n) = k

ToolUseBlocks(content) == SelectSeq(content, LAMBDA b : b.type = "tool_use")

\* The messages a run has appended to the history it was started with.
Appended(r) ==
    SubSeq(Run(r).currentMessages, Len(Run(r).payload.messages) + 1,
           Len(Run(r).currentMessages))

IsNudge(m) ==
    /\ m.role = "user"
    /\ m.kind = "string"
    /\ \E i \in 1..Len(nudgeMessages) :
          m.text \in {nudgeMessages[i], EmptyPrefix \o nudgeMessages[i]}

\* The instruction tier (0, 1, 2) of a nudge message.
TierOf(m) ==
    (CHOOSE i \in 1..Len(nudgeMessages) :
        m.text \in {nudgeMessages[i], EmptyPrefix \o nudgeMessages[i]}) - 1

Nudges(r) == SelectSeq(Appended(r), IsNudge)

ResponseOf(text) == [type |-> "response", text |-> text]

\* C2: against a backend that answers every call with stop_reason tool_use a run
\* makes exactly 25 backend calls, never a 26th, and ends with the cap warning
\* as its only terminal event, never with an error.
C2_CapAfter25Calls ==
    AlwaysKind("tool") =>
        \A r \in 1..Len(runs) :
            /\ Run(r).calls <= 25
            /\ Run(r).pc # "done" => Run(r).out = <<>>
            /\ Run(r).pc = "done" =>
                  /\ Run(r).calls = 25
                  /\ Run(r).out = <<ResponseOf(CapWarning)>>

C2_Witness ==
    /\ AlwaysKind("tool")
    /\ \E r \in 1..Len(runs) : Run(r).pc = "done" /\ Run(r).calls = 25

\* C3: against a backend that never requests a tool and always answers with
\* non-empty text a run injects exactly 5 nudges, the n-th (n = 0..4) of tier
\* min(n, 2), and returns the 6th reply as the final result.
C3_FiveEscalatingNudges ==
    AlwaysKind("text") =>
        \A r \in 1..Len(runs) :
            /\ Len(Nudges(r)) <= 5
            /\ \A n \in 1..Len(Nudges(r)) : TierOf(Nudges(r)[n]) = Min(n - 1, 2)
            /\ Run(r).pc = "done" =>
                  /\ Len(Nudges(r)) = 5
                  /\ Run(r).calls = 6
                  /\ Run(r).out = <<ResponseOf(Cleaned(Reply("text").content))>>

\* The step of run r that handles a reply without tool use.
TextTurnOf(r) ==
    /\ Run(r).pc = "fetch"
    /\ runs'[r] # runs[r]
    /\ ScriptKind(script, Run(r).calls) \in OkKinds
    /\ Reply(ScriptKind(script, Run(r).calls)).stop_reason # "tool_use"

\* The step nudges: the assistant turn and a nudge are appended, the counter is
\* incremented and the loop makes its next backend call.
Nudged(r) ==
    /\ Len(runs'[r].currentMessages) = Len(Run(r).currentMessages) + 2
    /\ runs'[r].currentMessages[Len(Run(r).currentMessages) + 1] =
          BlockMessage("assistant", Reply(ScriptKind(script, Run(r).calls)).content)
    /\ IsNudge(runs'[r].currentMessages[Len(Run(r).currentMessages) + 2])
    /\ autoContinueCount' = autoContinueCount + 1
    /\ runs'[r].pc = "fetch"
    /\ runs'[r].calls = Run(r).calls + 1
    /\ runs'[r].out = <<>>

\* The step returns the cleaned text as the final result; an empty cleaned text
\* is returned as it is only when the run had an earlier backend turn.
Returned(r) ==
    LET cleaned == Cleaned(Reply(ScriptKind(script, Run(r).calls)).content)
    IN /\ runs'[r].currentMessages = Run(r).currentMessages
       /\ autoContinueCount' = autoContinueCount
       /\ runs'[r].pc = "done"
       /\ runs'[r].calls = Run(r).calls
       /\ Len(runs'[r].out) = 1
       /\ runs'[r].out[1].type = "response"
       /\ cleaned # <<>> => runs'[r].out[1].text = cleaned
       /\ runs'[r].out[1].text = <<>> => Run(r).calls > 1
       /\ cleaned = <<>> /\ Run(r).calls > 1 => runs'[r].out[1].text = <<>>

BudgetAllowsNudge(r) ==
    LET cleaned == Cleaned(Reply(ScriptKind(script, Run(r).calls)).content)
    IN /\ autoContinueCount < 5
       /\ ~Run(r).hasUsedTools \/ cleaned = <<>>

\* C4 as stated: on a turn without tool use the run nudges exactly when the
\* budget of 5 is not exhausted and (no tool was used in the run or the cleaned
\* text is empty), and otherwise returns the cleaned text.
C4_NudgeIffBudget ==
    [][\A r \in 1..Len(runs) :
          TextTurnOf(r) =>
              IF BudgetAllowsNudge(r) THEN Nudged(r) ELSE Returned(r)]_vars

\* C4 as amended: the run nudges exactly when this is not its 25th backend call
\* and the budget allows it, and otherwise returns the cleaned text.
C4_NudgeIffBudgetBelowCap ==
    [][\A r \in 1..Len(runs) :
          TextTurnOf(r) =>
              IF Run(r).calls < 25 /\ BudgetAllowsNudge(r)
              THEN Nudged(r) ELSE Returned(r)]_vars

\* A run whose 25th reply was empty, after tool use, with nudges left: returned.
C4_Witness ==
    \E r \in 1..Len(runs) :
        /\ Run(r).pc = "done"
        /\ Run(r).calls = 25
        /\ Run(r).hasUsedTools
        /\ autoContinueCount < 5
        /\ Run(r).out = <<ResponseOf(<<>>)>>

\* C5: when a backend call of a run fails, the run emits exactly one error
\* event and no response event, and makes no further backend or tool call.
C5_BackendErrorAborts ==
    [][\A r \in 1..Len(runs) :
          /\ Run(r).pc # "done" => Run(r).out = <<>>
          /\ Run(r).pc = "done" => runs'[r] = runs[r]
          /\ (/\ Run(r).pc = "fetch"
              /\ runs'[r] # runs[r]
              /\ ScriptKind(script, Run(r).calls) \in {"http", "net"})
             => /\ runs'[r].pc = "done"
                /\ Len(runs'[r].out) = 1
                /\ runs'[r].out[1].type = "error"
                /\ runs'[r].calls = Run(r).calls
                /\ runs'[r].currentMessages = Run(r).currentMessages]_vars

C5_Witness ==
    \E r \in 1..Len(runs) :
        /\ Run(r).pc = "done"
        /\ Run(r).calls = 2
        /\ ScriptKind(script, 2) \in {"http", "net"}
        /\ Len(Run(r).out) = 1
        /\ Run(r).out[1].type = "error"

\* What a tool-use turn with these tool_use blocks posts and executes, in order.
RECURSIVE ToolTrace(_)
ToolTrace(tus) ==
    IF tus = <<>> THEN <<>>
    ELSE <<[type |-> "tool-activity", tool |-> Head(tus).name, id |-> Head(tus).id,
            status |-> "running"],
           [type |-> "executed", tool |-> Head(tus).name, id |-> Head(tus).id],
           [type |-> "tool-activity", tool |-> Head(tus).name, id |-> Head(tus).id,
            status |-> "done"]>> \o ToolTrace(Tail(tus))

\* C6: on a tool_use turn the run posts 'running', executes, posts 'done' for
\* each tool_use block in order; then the history grows by the assistant message
\* as returned and one user message with one tool_result per tool_use block, in
\* order, each with the id of its block.
C6_ToolTurnAppendsPair ==
    [][\A r \in 1..Len(runs) :
          (Run(r).pc = "tool" /\ runs'[r].pc # "tool") =>
              LET content == Reply(ScriptKind(script, Run(r).calls)).content
                  tus == ToolUseBlocks(content)
                  results == runs'[r].currentMessages[Len(Run(r).currentMessages) + 2]
              IN /\ Len(runs'[r].currentMessages) = Len(Run(r).currentMessages) + 2
                 /\ SubSeq(runs'[r].currentMessages, 1, Len(Run(r).currentMessages))
                       = Run(r).currentMessages
                 /\ runs'[r].currentMessages[Len(Run(r).currentMessages) + 1]
                       = BlockMessage("assistant", content)
                 /\ results.role = "user"
                 /\ results.kind = "blocks"
                 /\ Len(results.blocks) = Len(tus)
                 /\ \A i \in 1..Len(tus) :
                       /\ results.blocks[i].type = "tool_result"
                       /\ results.blocks[i].tool_use_id = tus[i].id
                 /\ SelectSeq(runs'[r].trace,
                              LAMBDA e : e.type \notin {"typing", "thinking-log"})
                       = tokenUsage(Reply(ScriptKind(script, Run(r).calls)),
                                    Run(r).groupId) \o ToolTrace(tus)]_vars

\* A turn with two tool_use blocks has been appended.
C6_Witness ==
    \E r \in 1..Len(runs) :
        /\ Len(Appended(r)) >= 2
        /\ Appended(r)[2].kind = "blocks"
        /\ Len(Appended(r)[2].blocks) = 2
        /\ Appended(r)[2].blocks[2].type = "tool_result"
        /\ Appended(r)[2].blocks[2].tool_use_id = "tu2"

\* The tools whose call ends without the tool's output: an unknown name, or an
\* implementation that throws.
ErroringTools == {name \in {"read_file", "list_files", "launch"} :
                     name \notin KnownTools \/ name \in FailingTools}

IsErrorString(t) == t # <<>> /\ Head(t) \in {"Unknown tool:", "Tool error ("}

\* Run r is at a call of an erroring tool and the call returns in this step.
ErroringToolReturns(r) ==
    /\ runs[r].pc = "tool"
    /\ runs[r].result[runs[r].block].name \in ErroringTools
    /\ runs'[r] # runs[r]

\* The tool results of the turn run r is in after the step: still collected, or
\* already appended to the history as the turn's user message.
ResultsAfter(r) ==
    IF runs'[r].pc = "tool" THEN runs'[r].toolResults
    ELSE runs'[r].currentMessages[Len(runs[r].currentMessages) + 2].blocks

\* The error string is the tool_result of the call and no error event ends the run.
ErrorFedBack(r) ==
    LET b == runs[r].result[runs[r].block]
        results == ResultsAfter(r)
        fed == results[Len(runs[r].toolResults) + 1]
    IN /\ Len(results) = Len(runs[r].toolResults) + 1
       /\ fed.type = "tool_result"
       /\ fed.tool_use_id = b.id
       /\ IsErrorString(fed.content)
       /\ \A i \in 1..Len(runs'[r].out) : runs'[r].out[i].type # "error"

LastToolOfTurn(r) == NextToolUse(runs[r].result, runs[r].block) = 0

NextBackendCall(r) ==
    /\ runs'[r].pc = "fetch"
    /\ runs'[r].calls = runs[r].calls + 1

\* C26 as stated: when the tool of a call is unknown or its implementation
\* throws, executeTool's error string becomes the tool_result of the call, and
\* after the last tool call of the turn the run makes its next backend call.
C26_ToolErrorsFedBack ==
    [][\A r \in 1..Len(runs) :
          ErroringToolReturns(r) =>
              /\ ErrorFedBack(r)
              /\ LastToolOfTurn(r) => NextBackendCall(r)]_vars

\* C26 with the iteration cap: when the tool of a call is unknown or its
\* implementation throws, the error string becomes the tool_result of the call
\* and no error ends the run; after the last tool call of the turn the run makes
\* its next backend call, unless the turn was that of its 25th backend call, in
\* which case the run ends with the cap warning.
C26_ToolErrorsFedBackBelowCap ==
    [][\A r \in 1..Len(runs) :
          ErroringToolReturns(r) =>
              /\ ErrorFedBack(r)
              /\ LastToolOfTurn(r) =>
                    IF runs[r].iterations < maxIterations
                    THEN NextBackendCall(r)
                    ELSE /\ runs'[r].pc = "done"
                         /\ runs'[r].out = <<ResponseOf(CapWarning)>>]_vars

\* A run has fed back the error strings of a throwing and of an unknown tool and
\* is at its next backend call.
C26_Witness ==
    \E r \in 1..Len(runs) :
        /\ Run(r).pc = "fetch"
        /\ Run(r).calls = 2
        /\ Len(Appended(r)) = 2
        /\ Appended(r)[2].kind = "blocks"
        /\ Len(Appended(r)[2].blocks) = 2
        /\ Head(Appended(r)[2].blocks[1].content) = "Tool error ("
        /\ Head(Appended(r)[2].blocks[2].content) = "Unknown tool:"

\* Run r's backend call succeeds and its reply is handled in this step.
ReplyHandled(r) ==
    /\ runs[r].pc = "fetch"
    /\ ScriptKind(script, runs[r].calls) \in OkKinds
    /\ runs'[r] # [runs[r] EXCEPT !.cancelled = runs'[r].cancelled]

ReplyOf(r) == Reply(ScriptKind(script, runs[r].calls))

\* The first event of the turn is the usage report of the reply: the four token
\* counts, a missing one as 0, and the context-window size.
UsageReportedFirst(r) ==
    /\ runs'[r].trace # <<>>
    /\ LET e == Head(runs'[r].trace)
           u == ReplyOf(r).usage
       IN /\ e.type = "token-usage"
          /\ e.groupId = runs[r].groupId
          /\ u # NoUsage =>
                /\ e.inputTokens = OrZero(u.input_tokens)
                /\ e.outputTokens = OrZero(u.output_tokens)
                /\ e.cacheReadTokens = OrZero(u.cache_read_input_tokens)
                /\ e.cacheCreationTokens = OrZero(u.cache_creation_input_tokens)
          /\ e.contextLimit = getContextLimit

\* C28 as stated: the handling of every successful reply starts with a
\* token-usage event carrying the token counts and the context-window size,
\* before the turn's tool calls, the next backend call and the terminal event.
C28_UsageAfterEveryReply ==
    [][\A r \in 1..Len(runs) : ReplyHandled(r) => UsageReportedFirst(r)]_vars

\* C28 for replies with a usage object: the handling of every successful reply
\* that carries a usage object starts with a token-usage event carrying the
\* token counts and the context-window size; a reply without one is handled
\* with no token-usage event at all.
C28_UsageAfterReplyWithUsage ==
    [][\A r \in 1..Len(runs) :
          ReplyHandled(r) =>
              IF ReplyOf(r).usage # NoUsage
              THEN UsageReportedFirst(r)
              ELSE \A i \in 1..Len(runs'[r].trace) :
                      runs'[r].trace[i].type # "token-usage"]_vars

\* A run is at its second backend call after a reply whose usage lacked the
\* cache counts, with the usage reported first in the turn.
C28_Witness ==
    \E r \in 1..Len(runs) :
        /\ Run(r).pc = "fetch"
        /\ Run(r).calls = 2
        /\ Reply(ScriptKind(script, 1)).usage # NoUsage
        /\ Reply(ScriptKind(script, 1)).usage.cache_read_input_tokens = NoCount
        /\ Run(r).trace # <<>>
        /\ Head(Run(r).trace).type = "token-usage"
        /\ Head(Run(r).trace).cacheReadTokens = 0

\* C27: a cancel command delivered to the worker during a run is honoured
\* between iterations: from its delivery on the run starts no further backend
\* call; and its delivery leaves the request or tool call in flight alone.
C27_CancelStopsBackendCalls ==
    [][\A r \in 1..Len(runs) :
          /\ runs[r].cancelled => runs'[r].calls = runs[r].calls
          /\ (~runs[r].cancelled /\ runs'[r].cancelled) =>
                 runs'[r] = [runs[r] EXCEPT !.cancelled = TRUE]]_vars

\* The second half of C27 alone: the delivery of a cancel command changes
\* nothing of a run in flight.
C27_CancelLeavesFlightAlone ==
    [][\A r \in 1..Len(runs) :
          (~runs[r].cancelled /\ runs'[r].cancelled) =>
              runs'[r] = [runs[r] EXCEPT !.cancelled = TRUE]]_vars

\* A run made a further backend call after a cancel command was delivered.
C27_CalledAfterCancel ==
    \E r \in 1..Len(runs) :
        /\ Run(r).cancelled
        /\ Run(r).pc = "fetch"
        /\ Run(r).calls >= 2

\* C34: while a run is going on, a step that is not a step of that run leaves
\* the nudge counter as it is: the counter changes only through the run's own
\* nudges and its own reset on first tool use.
C34_CounterPrivateToRun ==
    [][\A r \in 1..Len(runs) :
          (Active(r) /\ runs'[r] = runs[r]) =>
              autoContinueCount' = autoContinueCount]_vars

\* How many nudges a run has injected into its history.
NudgeCount(run) ==
    Len(SelectSeq(SubSeq(run.currentMessages, Len(run.payload.messages) + 1,
                         Len(run.currentMessages)), IsNudge))

OneTerminalEvent(run) ==
    /\ Len(run.out) <= 1
    /\ \A i \in 1..Len(run.out) : run.out[i].type \in {"response", "error"}
    /\ run.out # <<>> <=> run.pc = "done"

\* Once a run has its terminal event, no step posts a further event for it:
\* neither typing, tool-activity, log or token-usage, nor another terminal event.
SilentAfterTerminal(r) ==
    runs[r].out # <<>> =>
        /\ runs'[r].trace = runs[r].trace
        /\ runs'[r].out = runs[r].out

\* The events of the turn in which a run ends were posted before its terminal
\* event: the turn of the cap ends with the typing signal that precedes the
\* warning, a returned text with the logs of the reply.
C36_AtMostOneTerminalEvent ==
    [][\A r \in 1..Len(runs') :
          /\ OneTerminalEvent(runs'[r])
          /\ r \in 1..Len(runs) => SilentAfterTerminal(r)]_vars

\* A run has ended with its response after a tool-use turn, and the worker is
\* in the middle of a tool-use turn of another run.
C36_Witness ==
    /\ Len(runs) = 2
    /\ Run(1).pc = "done"
    /\ Run(1).calls = 2
    /\ Len(Run(1).out) = 1
    /\ Run(1).out[1].type = "response"
    /\ Run(2).pc = "tool"

\* A compaction is in flight: from compactContext passing its checks to the
\* end of handleCompactDone, or to the receipt of the worker's error.
CompactionInFlight ==
    \/ \E t \in tasks : t.fn \in {"compactContext", "handleCompactDone"}
    \/ \E i \in 1..Len(inbox) : inbox[i].type = "compact"
    \/ \E r \in 1..Len(runs) : Run(r).pc = "compact"
    \/ \E i \in 1..Len(outbox) : outbox[i].type = "compact-done"
    \/ \E i \in 1..Len(outbox) : Run(outbox[i].run).payload.trigger[1] = "compact"

\* A call of compactContext while the state is not idle starts nothing.
RefusedUnlessIdle ==
    (compactions' > compactions /\ state # "idle") =>
        /\ tasks' = tasks
        /\ inbox' = inbox
        /\ state' = state

\* No step starts invokeAgent while a compaction is in flight.
NoRunDuringCompaction ==
    CompactionInFlight => \A t \in tasks' \ tasks : t.fn # "invokeAgent"

\* The step of handleCompactDone that clears the group's history deletes only
\* what the snapshot taken by compactContext holds.
ClearsOnlySnapshot ==
    \A t \in tasks \ tasks' :
        (t.fn = "handleCompactDone" /\ t.pc = "clear") =>
            buildConversationMessages(db, t.groupId, CONTEXT_WINDOW_SIZE)
                = Run(t.id[2]).payload.messages

\* C40: compactions and runs exclude each other. compactContext is refused
\* unless the state is idle; no run is started while a compaction is in
\* flight; and a message stored after the snapshot was taken is not deleted
\* when the compaction completes.
C40_CompactionExcludesRuns ==
    [][RefusedUnlessIdle /\ NoRunDuringCompaction /\ ClearsOnlySnapshot]_vars

\* The stored messages hold the inbound message with this id.
Persisted(id) == \E i \in 1..Len(db) : db[i].id = id

\* C38: while invokeAgent is under way for a message taken from the queue, from
\* its start to the building of the history window, that message is among the
\* stored messages.
C38_TriggerPersistedBeforeRun ==
    \A t \in tasks : t.fn = "invokeAgent" /\ t.viaQueue => Persisted(t.id)

\* The position of a run in handleInvoke moves forward: the run ends, or it
\* makes its next backend call, or within one turn it goes from the reply to
\* the first tool call or from one tool call to a later one.
Advances(before, after) ==
    \/ after.pc = "done"
    \/ after.calls > before.calls
    \/ /\ after.calls = before.calls
       /\ before.pc = "fetch"
       /\ after.pc = "tool"
    \/ /\ after.calls = before.calls
       /\ before.pc = "tool"
       /\ after.pc = "tool"
       /\ after.block > before.block
       /\ after.block <= Len(after.result)

\* What run r is waiting for can happen: its backend call can fail, or return
\* a reply with or without tool use, or its tool call can return.
Pending(r) ==
    \/ /\ Run(r).pc = "fetch"
       /\ ScriptKind(script, Run(r).calls) \in OkKinds \cup {"http", "net"}
    \/ /\ Run(r).pc = "tool"
       /\ Run(r).block \in 1..Len(Run(r).result)

\* C37: every run terminates after at most 25 backend calls. A run that has
\* not ended is never stuck, its pending backend call or tool call can return;
\* every step of a run moves it forward in an order that has no infinite
\* ascent, since the calls stop at 25 and the tool calls of a turn at the
\* length of the reply; and a run that has ended has emitted a response or an
\* error. So a run whose calls all return reaches its terminal event.
C37_EveryRunTerminates ==
    /\ [](\A r \in 1..Len(runs) :
            /\ Run(r).calls <= maxIterations
            /\ Run(r).pc # "done" => Pending(r)
            /\ Run(r).pc # "done" /\ Run(r).calls \in {1, maxIterations} =>
                  ENABLED RunStep(r)
            /\ Run(r).pc = "done" =>
                  /\ Len(Run(r).out) = 1
                  /\ Run(r).out[1].type \in {"response", "error"})
    /\ [][\A r \in 1..Len(runs) :
            runs'[r] # runs[r] =>
                /\ Run(r).pc # "done"
                /\ Advances(runs[r], runs'[r])]_vars

\* A run has ended with the cap warning after 25 backend calls, the last one
\* answered with a tool-use turn.
C37_Witness ==
    \E r \in 1..Len(runs) :
        /\ Run(r).pc = "done"
        /\ Run(r).calls = maxIterations
        /\ Run(r).out = <<ResponseOf(CapWarning)>>

\* A run or a compaction is in progress in the worker: handleInvoke or
\* handleCompact has started and not yet posted its terminal event.
WorkerBusy == \E r \in 1..Len(runs) : Run(r).pc # "done"

\* C30: the orchestrator's state is thinking whenever a run or a compaction is
\* in progress in the worker, and it is idle only when none is in progress.
C30_StateTracksWorker ==
    /\ WorkerBusy => state = "thinking"
    /\ state = "idle" => ~WorkerBusy

\* C30 while the worker has been given one command only.
C30_StateTracksSingleRun == Len(runs) = 1 => C30_StateTracksWorker

-----------------------------------------------------------------------------
(* The proxy server: what a request did, read off its record *)

Req(q) == reqs[q]

\* Request q reaches its reply in this step.
Completes(q) ==
    /\ q \in 1..Len(reqs')
    /\ reqs'[q].pc = "done"
    /\ (q \in 1..Len(reqs) => Req(q).pc # "done")

\* Request q is received in this step.
Arrives(q) == q = Len(reqs') /\ Len(reqs') = Len(reqs) + 1

FailedSubmission(req) ==
    req.route = "auth" /\ req.pc = "done" /\ req.reply.status = 401

\* C7: when a credential submission fails verification, at its completion the
\* stored credential is empty, no token is cached and the reply carries the
\* reason; and whenever the credential of a failed submission is the stored
\* one, another submission of that same credential is being verified or was
\* verified.
C7_RollbackAtCompletion ==
    \A q \in 1..Len(reqs') :
        (Completes(q) /\ FailedSubmission(reqs'[q])) =>
            /\ githubToken' = ""
            /\ copilotToken' = NoToken
            /\ reqs'[q].reply.error # <<>>

C7_FailedNeverStored ==
    \A q \in 1..Len(reqs) :
        (FailedSubmission(Req(q)) /\ githubToken # ""
            /\ githubToken = TrimToken(Req(q).token)) =>
            \E p \in 1..Len(reqs) :
                /\ p # q
                /\ Req(p).route = "auth"
                /\ TrimToken(Req(p).token) = githubToken
                /\ (Req(p).pc # "done" \/ Req(p).reply.status = 200)

C7_FailedCredentialRolledBack ==
    []C7_FailedNeverStored /\ [][C7_RollbackAtCompletion]_vars

\* The request received in this step calls getCopilotJWT, and this is the
\* credential stored and the token cached when it does.
CallsGetCopilotJWT(req) ==
    IF req.route = "auth" THEN req.token # "" ELSE githubToken # ""

CachedAtCall(req) == IF req.route = "auth" THEN NoToken ELSE copilotToken

StoredAtCall(req) == IF req.route = "auth" THEN TrimToken(req.token) ELSE githubToken

RefreshDue(cached) ==
    cached = NoToken \/ cached.expires_at - now <= 60

HandsOutCached(req, cached) ==
    /\ req.issuerCalls = 0
    /\ req.jwt = cached.token
    /\ cached.expires_at - now > 60

\* C8 as stated: getCopilotJWT calls the token endpoint exactly when no token
\* is cached or the cached one is within 60 seconds of its expiry or past it;
\* otherwise it returns the cached token without a network call.
C8_RefreshExactlyWhenDue ==
    [][\A q \in 1..Len(reqs') :
          (Arrives(q) /\ CallsGetCopilotJWT(reqs'[q])) =>
              LET cached == CachedAtCall(reqs'[q])
              IN /\ reqs'[q].issuerCalls = 1 <=> RefreshDue(cached)
                 /\ ~RefreshDue(cached) => HandsOutCached(reqs'[q], cached)]_vars

\* C8, amended: getCopilotJWT calls the token endpoint exactly when a
\* credential is stored and no token is cached or the cached one is within 60
\* seconds of its expiry or past it; with a refresh due and no credential
\* stored it fails without a network call; otherwise it returns the cached
\* token without a network call, more than 60 seconds before its expiry.
C8_RefreshExactlyWhenDueAndCredential ==
    [][\A q \in 1..Len(reqs') :
          (Arrives(q) /\ CallsGetCopilotJWT(reqs'[q])) =>
              LET cached == CachedAtCall(reqs'[q])
                  stored == StoredAtCall(reqs'[q])
              IN /\ reqs'[q].issuerCalls = 1 <=> (RefreshDue(cached) /\ stored # "")
                 /\ (RefreshDue(cached) /\ stored = "") =>
                        /\ reqs'[q].pc = "done"
                        /\ reqs'[q].jwt = <<>>
                        /\ reqs'[q].reply.status # 200
                 /\ ~RefreshDue(cached) => HandsOutCached(reqs'[q], cached)]_vars

\* A request was handed the cached token without a refresh, and another one
\* had to refresh a token that was cached but too close to its expiry.
C8_Witness ==
    /\ \E q \in 1..Len(reqs) :
          /\ Req(q).route = "messages"
          /\ Req(q).issuerCalls = 0
          /\ Req(q).jwt # <<>>
    /\ copilotToken # NoToken
    /\ copilotToken.expires_at - now > 60

\* C9: when the token endpoint answers with a non-success status the cache is
\* empty afterwards and the request fails with a message carrying the status
\* and the body; when it answers with success the cache is the issued token,
\* field for field.
C9_RefreshClearsOrReplaces ==
    [][\A q \in 1..Len(reqs) :
          (Req(q).pc = "exchange" /\ reqs'[q].pc # "exchange") =>
              LET answer == reqs'[q].issuer
              IN /\ answer.kind = "status" =>
                        /\ copilotToken' = NoToken
                        /\ reqs'[q].pc = "done"
                        /\ reqs'[q].reply.status # 200 \/ reqs'[q].route = "status"
                        /\ reqs'[q].reply.type # "authenticated"
                        /\ Len(reqs'[q].reply.error) = 3
                        /\ reqs'[q].reply.error[2] = answer.status
                        /\ reqs'[q].reply.error[3] = answer.body
                 /\ answer.kind = "ok" => copilotToken' = answer.token]_vars

\* A refusal by the token endpoint has emptied a cache, after another request's
\* exchange had succeeded.
C9_Witness ==
    /\ copilotToken = NoToken
    /\ \E q \in 1..Len(reqs) :
          Req(q).pc = "done" /\ Req(q).issuer.kind = "status"
    /\ \E q \in 1..Len(reqs) : Req(q).issuer.kind = "ok"

\* C10: a /v1/messages request sends at most one completion request; a
\* non-success answer of the backend ends the request with the backend's
\* status and a reply carrying its body, with no second attempt; without a
\* stored credential the reply is 401 and neither the token endpoint nor the
\* backend is called; a request that has replied makes no further call.
C10_AtMostOneBackendCall ==
    [][\A q \in 1..Len(reqs') :
          reqs'[q].route = "messages" =>
              /\ reqs'[q].backendCalls <= 1
              /\ (Arrives(q) /\ githubToken = "") =>
                    /\ reqs'[q].pc = "done"
                    /\ reqs'[q].reply.status = 401
                    /\ reqs'[q].issuerCalls = 0
                    /\ reqs'[q].backendCalls = 0
              /\ (q \in 1..Len(reqs) /\ Req(q).pc = "backend"
                    /\ reqs'[q].backend.kind = "status") =>
                    /\ reqs'[q].pc = "done"
                    /\ reqs'[q].reply.status = reqs'[q].backend.status
                    /\ reqs'[q].reply.error[2] = reqs'[q].backend.status
                    /\ reqs'[q].reply.error[3] = reqs'[q].backend.body
                    /\ reqs'[q].backendCalls = 1
              /\ (q \in 1..Len(reqs) /\ Req(q).pc = "done") => reqs'[q] = Req(q)]_vars

\* One request was refused by the backend and replied with the backend's
\* status, another was refused for want of a credential.
C10_Witness ==
    \E q \in 1..Len(reqs) :
        /\ Req(q).route = "messages"
        /\ Req(q).pc = "done"
        /\ Req(q).backend.kind = "status"
        /\ Req(q).reply.status = 429
        /\ Req(q).backendCalls = 1

\* The requests of the messages route that were sent to a completion endpoint
Forwarded == {q \in 1..Len(reqs) : Req(q).route = "messages" /\ Req(q).backendCalls > 0}

Canonical(req) == mapModelToCopilot(originalModel(req))

\* C19: a request of the messages route goes to the Responses endpoint exactly when
\* its canonical model id is one of the five ids of the allow-list, and to the chat
\* endpoint otherwise; two requests with the same model id go to the same
\* endpoint whatever the rest of the request is.
C19_PipelineByModel ==
    /\ Cardinality(RESPONSES_API_MODELS) = 5
    /\ \A q \in Forwarded :
          /\ Req(q).url \in {COPILOT_RESPONSES_URL, COPILOT_CHAT_URL}
          /\ Req(q).url = COPILOT_RESPONSES_URL <=> Canonical(Req(q)) \in RESPONSES_API_MODELS
    /\ \A q1, q2 \in Forwarded : Req(q1).model = Req(q2).model => Req(q1).url = Req(q2).url

\* Two requests for a listed model that differ in the rest of the request were
\* both sent to the Responses endpoint, and one of them is for a variant id.
C19_Witness ==
    \E q1, q2 \in Forwarded :
        /\ Req(q1).model = Req(q2).model
        /\ Len(Req(q1).model) > 7
        /\ Req(q1).max_tokens # Req(q2).max_tokens
        /\ Req(q1).url = COPILOT_RESPONSES_URL
        /\ Req(q2).url = COPILOT_RESPONSES_URL

\* The credential a cached token was issued for.
IssuedFor(cached) == cached.token[2]

\* C32: a cached token was issued for the credential that is stored now; no
\* token is cached while the stored credential is empty.
C32_CacheMatchesCredential ==
    copilotToken # NoToken =>
        /\ githubToken # ""
        /\ IssuedFor(copilotToken) = githubToken

\* The credential submissions that reached verification, in the order submitted.
Submissions == {q \in 1..Len(reqs) : Req(q).route = "auth" /\ Req(q).token # ""}

LastSubmission == CHOOSE q \in Submissions : \A p \in Submissions : p <= q

\* C33: once all requests have completed, if the credential submitted last was
\* answered with success, it is the stored credential.
C33_LastVerifiedStays ==
    (/\ Submissions # {}
     /\ \A q \in 1..Len(reqs) : Req(q).pc = "done"
     /\ Req(LastSubmission).reply.status = 200) =>
        githubToken = TrimToken(Req(LastSubmission).token)

\* The stored credential or the cached token changes in this step.
CredentialOrCacheChanges ==
    githubToken' # githubToken \/ copilotToken' # copilotToken

\* A token exchange ends in this step: refreshCopilotToken's fetch has answered.
RefreshEnds ==
    \E q \in 1..Len(reqs) : Req(q).pc = "exchange" /\ reqs'[q].pc # "exchange"

\* A request arrives in this step on this route.
ArrivesOn(route) ==
    /\ Len(reqs') = Len(reqs) + 1
    /\ reqs'[Len(reqs')].route = route

\* A request of the relay route arrives or is answered in this step.
RelayStep ==
    \/ ArrivesOn("relay")
    \/ \E q \in 1..Len(reqs) : Req(q).route = "relay" /\ reqs'[q] # Req(q)

\* A request is forwarded in this step with the token as cached, or its
\* forwarded request is answered.
ForwardStepWithoutRefresh ==
    \/ ArrivesOn("messages") /\ reqs'[Len(reqs')].pc = "backend"
    \/ \E q \in 1..Len(reqs) : Req(q).pc = "backend" /\ reqs'[q] # Req(q)

\* C29: the stored credential and the cached token change only when a token
\* exchange ends and when a credential is submitted; the health route, the relay
\* route and the forwarding of a request whose token needed no refresh leave
\* both as they were.
C29_TokenAndCredentialFrame ==
    [][/\ CredentialOrCacheChanges => RefreshEnds \/ ArrivesOn("auth")
       /\ ArrivesOn("health") \/ RelayStep \/ ForwardStepWithoutRefresh =>
             ~CredentialOrCacheChanges]_vars

\* After a request that exchanged the credential for a token, a request has
\* been forwarded with the token as cached and answered; both are as they were.
C29_Witness ==
    /\ copilotToken # NoToken
    /\ githubToken # ""
    /\ Len(reqs) = 2
    /\ Req(1).issuerCalls = 1
    /\ Req(2).route = "messages"
    /\ Req(2).issuerCalls = 0
    /\ Req(2).backendCalls = 1
    /\ Req(2).pc = "done"
    /\ Req(2).jwt = copilotToken.token

-----------------------------------------------------------------------------
(* The translations: what a call returned, set against its argument *)

\* C17: mapModelToCopilot applied to what mapModelToCopilot returned returns it
\* unchanged, for every model id.
C17_MapModelIdempotent ==
    (called.fn = "mapModelToCopilot" /\ ~called.pending /\ called.fed) =>
        returned.model = called.model

\* The second call was given an id that the first call had rewritten and shortened.
C17_Witness ==
    /\ called.fn = "mapModelToCopilot"
    /\ called.fed
    /\ called.origin # called.model
    /\ Len(called.origin) > Len(called.model)
    /\ returned.model = called.model

IsDigit(t) == t \in {"0", "1", "2", "3", "4", "5", "6", "7", "8", "9"}

IsWord(t) == ~IsDigit(t) /\ t \notin {"-", "."}

\* How many digits the id has in a row from position i on
RECURSIVE DigitRun(_, _)
DigitRun(m, i) == IF i <= Len(m) /\ IsDigit(m[i]) THEN 1 + DigitRun(m, i + 1) ELSE 0

\* claude-<family>-<major>-<minor>, alone or followed by -<suffix>
DashedClaude(m) ==
    /\ Len(m) >= 7
    /\ m[1] = "claude" /\ m[2] = "-" /\ IsWord(m[3]) /\ m[4] = "-"
    /\ DigitRun(m, 5) > 0
    /\ Len(m) > 5 + DigitRun(m, 5)
    /\ m[5 + DigitRun(m, 5)] = "-"
    /\ DigitRun(m, 6 + DigitRun(m, 5)) > 0
    /\ LET end == 5 + DigitRun(m, 5) + DigitRun(m, 6 + DigitRun(m, 5))
       IN Len(m) = end \/ m[end + 1] = "-"

\* claude-<family>-<major>.<minor> of a dashed id
Dotted(m) ==
    LET major == DigitRun(m, 5)
        minor == DigitRun(m, 6 + major)
    IN SubSeq(m, 1, 4 + major) \o <<".">> \o SubSeq(m, 6 + major, 5 + major + minor)

\* C18: mapModelToCopilot returns claude-<family>-<major>.<minor> for every id
\* of the form claude-<family>-<major>-<minor>, with or without a suffix, and
\* returns every other id unchanged.
C18_RewritesEveryDashedClaudeId ==
    (called.fn = "mapModelToCopilot" /\ ~called.pending /\ ~called.fed) =>
        returned.model = IF DashedClaude(called.model) THEN Dotted(called.model)
                         ELSE called.model

\* The call of anthropicToOpenAI that has returned, if one has
Translated == called.fn = "anthropicToOpenAI" /\ ~called.pending

\* Every message of the request has a string or an array as its content.
ContentsKnown(body) ==
    \A i \in 1..Len(body.messages) : body.messages[i].kind \in {"string", "blocks"}

\* A system value that is not empty: a string with text, an array with blocks,
\* or another value
SystemNonEmpty(system) ==
    \/ system.kind = "string" /\ system.text # <<>>
    \/ system.kind = "blocks" /\ system.blocks # <<>>
    \/ system.kind = "number"

HasToolResult(msg) == msg.kind = "blocks" /\ OfType(msg.blocks, "tool_result") # <<>>

\* How many messages a message of the request becomes
Width(msg) == IF HasToolResult(msg) THEN Len(OfType(msg.blocks, "tool_result")) ELSE 1

\* The texts of the text blocks, joined
JoinedText(msg) ==
    LET texts == OfType(msg.blocks, "text")
    IN Join([i \in 1..Len(texts) |-> texts[i].text], "\n")

\* The messages seg are what the message msg is to become.
TranslationOf(msg, seg) ==
    CASE msg.kind = "string" ->
            /\ seg[1].role = msg.role
            /\ seg[1].content = Str(msg.text)
            /\ seg[1].tool_calls = <<>>
      [] HasToolResult(msg) ->
            LET results == OfType(msg.blocks, "tool_result")
            IN \A i \in 1..Len(results) :
                  /\ seg[i].role = "tool"
                  /\ seg[i].tool_call_id = results[i].tool_use_id
      [] OTHER ->
            LET uses == OfType(msg.blocks, "tool_use")
            IN /\ seg[1].role = msg.role
               /\ seg[1].content = IF JoinedText(msg) # <<>> THEN Str(JoinedText(msg))
                                   ELSE IF uses # <<>> THEN Null
                                   ELSE Str(<<>>)
               /\ Len(seg[1].tool_calls) = Len(uses)
               /\ \A i \in 1..Len(uses) :
                     /\ seg[1].tool_calls[i].id = uses[i].id
                     /\ seg[1].tool_calls[i].function.name = uses[i].name

\* The messages out are the translations of the messages msgs, in order.
RECURSIVE InOrder(_, _)
InOrder(msgs, out) ==
    IF msgs = <<>> THEN out = <<>>
    ELSE /\ Len(out) >= Width(Head(msgs))
         /\ TranslationOf(Head(msgs), SubSeq(out, 1, Width(Head(msgs))))
         /\ InOrder(Tail(msgs), SubSeq(out, Width(Head(msgs)) + 1, Len(out)))

LedBySystem(out) == out # <<>> /\ Head(out).role = "system"

\* C20: anthropicToOpenAI maps the messages in order.  A system value that is
\* not empty becomes the first message, of role system; a message with string
\* content keeps its role and content; a message whose array content has
\* tool_result blocks becomes one tool message per tool_result block, with its
\* tool_use_id as tool_call_id; any other message with array content becomes
\* one message of the same role whose content is the joined text, null when
\* there is no text but there are tool calls, the empty string when there is
\* neither, and whose tool_calls are the tool_use blocks in order, with their id
\* and name.
C20_ChatTranslationInOrder ==
    (Translated /\ ContentsKnown(called.body)) =>
        LET out == returned.body.messages
        IN /\ SystemNonEmpty(called.body.system) =>
                 /\ LedBySystem(out)
                 /\ Head(out).content = Str(systemText(called.body.system))
           /\ InOrder(called.body.messages, IF LedBySystem(out) THEN Tail(out) ELSE out)

\* A request with a system array, an assistant message of text and a tool call
\* and a user message with the tool's result was translated to three messages.
C20_Witness ==
    /\ Translated
    /\ ContentsKnown(called.body)
    /\ called.body.system.kind = "blocks"
    /\ SystemNonEmpty(called.body.system)
    /\ Len(called.body.messages) = 2
    /\ ~HasToolResult(called.body.messages[1])
    /\ called.body.messages[1].kind = "blocks"
    /\ OfType(called.body.messages[1].blocks, "tool_use") # <<>>
    /\ HasToolResult(called.body.messages[2])
    /\ Len(returned.body.messages) = 3
    /\ returned.body.messages[3].role = "tool"

\* The call of anthropicToResponsesAPI that has returned, if one has
TranslatedForResponses == called.fn = "anthropicToResponsesAPI" /\ ~called.pending

RECURSIVE Concat(_)
Concat(seqs) == IF seqs = <<>> THEN <<>> ELSE Head(seqs) \o Concat(Tail(seqs))

TextEvents(role, t) ==
    [i \in 1..Len(t) |-> [tool |-> FALSE, role |-> role, token |-> t[i]]]

ToolEvent(role) == <<[tool |-> TRUE, role |-> role, token |-> ""]>>

\* A turn as the sequence of its text tokens and tool blocks: the tool blocks
\* of a user turn are its tool_result blocks, those of an assistant turn its
\* tool_use blocks.
TurnEvents(msg) ==
    CASE msg.kind = "string" -> TextEvents(msg.role, msg.text)
      [] msg.kind = "blocks" ->
            Concat([i \in 1..Len(msg.blocks) |->
                CASE msg.blocks[i].type = "text" -> TextEvents(msg.role, msg.blocks[i].text)
                  [] msg.blocks[i].type = "tool_result" /\ msg.role = "user" ->
                        ToolEvent("user")
                  [] msg.blocks[i].type = "tool_use" /\ msg.role = "assistant" ->
                        ToolEvent("assistant")
                  [] OTHER -> <<>>])
      [] OTHER -> <<>>

\* The input items as the sequence of their text tokens and tool items
ItemEvents(items) ==
    Concat([i \in 1..Len(items) |->
        CASE items[i].type = "function_call" -> ToolEvent("assistant")
          [] items[i].type = "function_call_output" -> ToolEvent("user")
          [] items[i].role = "developer" -> <<>>
          [] OTHER -> TextEvents(items[i].role,
                                 SelectSeq(items[i].content, LAMBDA tok : tok # "\n"))])

ToolsUpTo(ev, j) == Len(SelectSeq(SubSeq(ev, 1, j), LAMBDA e : e.tool))

TextsBefore(ev, j) == SelectSeq(SubSeq(ev, 1, j - 1), LAMBDA e : ~e.tool)

IsPrefix(a, b) == Len(a) <= Len(b) /\ SubSeq(b, 1, Len(a)) = a

\* C21: anthropicToResponsesAPI keeps the order within a turn: every tool block
\* of a turn has its item (function_call_output in a user turn, function_call in
\* an assistant turn), and all the text that precedes the block in the turn
\* is emitted, under the turn's role, in items ahead of that item.
C21_TextBeforeToolItems ==
    (TranslatedForResponses /\ Len(called.body.messages) = 1) =>
        LET in == TurnEvents(called.body.messages[1])
            out == ItemEvents(returned.body.input)
        IN /\ ToolsUpTo(out, Len(out)) = ToolsUpTo(in, Len(in))
           /\ \A j \in 1..Len(in) : in[j].tool =>
                 \E k \in 1..Len(out) :
                    /\ out[k].tool
                    /\ out[k].role = in[j].role
                    /\ ToolsUpTo(out, k) = ToolsUpTo(in, j)
                    /\ IsPrefix(TextsBefore(in, j), TextsBefore(out, k))

\* A user turn of a text and a tool result became a user item and then a
\* function_call_output item.
C21_Witness ==
    /\ TranslatedForResponses
    /\ Len(called.body.messages) = 1
    /\ called.body.messages[1].role = "user"
    /\ called.body.messages[1].kind = "blocks"
    /\ Len(called.body.messages[1].blocks) = 2
    /\ called.body.messages[1].blocks[1].type = "text"
    /\ called.body.messages[1].blocks[1].text # <<>>
    /\ called.body.messages[1].blocks[2].type = "tool_result"
    /\ called.body.system = NoSystem
    /\ Len(returned.body.input) = 2
    /\ returned.body.input[1].role = "user"
    /\ returned.body.input[2].type = "function_call_output"

\* The call of responsesAPIToAnthropic that is over, if one is
ResponseTranslated == called.fn = "responsesAPIToAnthropic" /\ ~called.pending

ItemsOf(response) == IF response.output.kind = "array" THEN response.output.items ELSE <<>>

HasFunctionCall(response) ==
    \E i \in 1..Len(ItemsOf(response)) : ItemsOf(response)[i].type = "function_call"

\* The response has a text that is not empty.
HasOutputText(response) ==
    \E i \in 1..Len(ItemsOf(response)) :
        /\ ItemsOf(response)[i].type = "message"
        /\ \E j \in 1..Len(ItemsOf(response)[i].content.blocks) :
              /\ ItemsOf(response)[i].content.blocks[j].type = "output_text"
              /\ ItemsOf(response)[i].content.blocks[j].text # <<>>

\* C22: what responsesAPIToAnthropic returns has content that is not empty, one
\* empty text block when the response yields no block; its stop_reason is
\* tool_use when the response has a function_call item, else end_turn when the
\* status of the response is "completed", else max_tokens.
C22_ContentAndStopReason ==
    (ResponseTranslated /\ ~returned.body.threw) =>
        /\ returned.body.content # <<>>
        /\ (~HasFunctionCall(called.body) /\ ~HasOutputText(called.body)) =>
              returned.body.content = <<[type |-> "text", text |-> <<>>]>>
        /\ returned.body.stop_reason =
              IF HasFunctionCall(called.body) THEN "tool_use"
              ELSE IF called.body.status = "completed" THEN "end_turn"
              ELSE "max_tokens"

\* A response with an empty output array and a status other than "completed"
\* was translated.
C22_Witness ==
    /\ ResponseTranslated
    /\ ~returned.body.threw
    /\ called.body.output.kind = "array"
    /\ called.body.output.items = <<>>
    /\ called.body.status = "incomplete"
    /\ returned.body.content = <<[type |-> "text", text |-> <<>>]>>
    /\ returned.body.stop_reason = "max_tokens"

\* The call of openAIToAnthropic that is over, if one is
CompletionTranslated == called.fn = "openAIToAnthropic" /\ ~called.pending

FirstChoice == called.body.choices[1]

HasToolCallsArray(choice) ==
    choice.message.tool_calls.kind = "array" /\ Len(choice.message.tool_calls.calls) > 0

\* The value returned for a response without a first choice
IsFallback(result) ==
    /\ result.content = <<[type |-> "text", text |-> FallbackText]>>
    /\ result.stop_reason = "end_turn"
    /\ result.usage.input_tokens = 0
    /\ result.usage.output_tokens = 0

\* C23, as stated: without a first choice openAIToAnthropic returns the
\* fallback text block with end_turn and zero usage; otherwise stop_reason is
\* tool_use when finish_reason is "tool_calls" and tool_calls is not empty,
\* end_turn when finish_reason is "stop", end_turn when finish_reason is
\* "tool_calls" and there are no tool_calls, max_tokens when it is "length".
C23_StopReasonOfChoice ==
    (CompletionTranslated /\ ~returned.body.threw) =>
        IF called.body.choices = <<>> THEN IsFallback(returned.body)
        ELSE /\ (FirstChoice.finish_reason = "tool_calls" /\ HasToolCallsArray(FirstChoice))
                    => returned.body.stop_reason = "tool_use"
             /\ FirstChoice.finish_reason = "stop" => returned.body.stop_reason = "end_turn"
             /\ (FirstChoice.finish_reason = "tool_calls" /\ ~HasToolCallsArray(FirstChoice))
                    => returned.body.stop_reason = "end_turn"
             /\ FirstChoice.finish_reason = "length"
                    => returned.body.stop_reason = "max_tokens"

\* C23, amended: as above, but for finish_reason "stop" stop_reason is tool_use
\* when tool_calls is not empty and end_turn when there are no tool_calls.
C23_StopReasonOfChoiceWithCalls ==
    (CompletionTranslated /\ ~returned.body.threw) =>
        IF called.body.choices = <<>> THEN IsFallback(returned.body)
        ELSE /\ (FirstChoice.finish_reason \in {"tool_calls", "stop"}
                 /\ HasToolCallsArray(FirstChoice))
                    => returned.body.stop_reason = "tool_use"
             /\ (FirstChoice.finish_reason \in {"tool_calls", "stop"}
                 /\ ~HasToolCallsArray(FirstChoice))
                    => returned.body.stop_reason = "end_turn"
             /\ FirstChoice.finish_reason = "length"
                    => returned.body.stop_reason = "max_tokens"

\* A completion that finished with "stop" and carries a tool call was translated.
C23_Witness ==
    /\ CompletionTranslated
    /\ ~returned.body.threw
    /\ called.body.choices # <<>>
    /\ FirstChoice.finish_reason = "stop"
    /\ HasToolCallsArray(FirstChoice)
    /\ returned.body.stop_reason = "tool_use"

\* The tool_use blocks of a translated response whose arguments did not parse
UnparsedInputs(result) ==
    {i \in 1..Len(result.content) :
        result.content[i].type = "tool_use" /\ result.content[i].input.json = "raw"}

\* C24: the translators return a value for every input and never throw, also
\* for upstream data with missing or wrongly shaped fields, and tool-call
\* arguments that are no valid JSON become the input {raw: arguments}.
C24_TranslatorsTotal ==
    (ResponseTranslated \/ CompletionTranslated) =>
        /\ ~returned.body.threw
        /\ \A i \in UnparsedInputs(returned.body) :
              ~JsonParse(returned.body.content[i].input.text).ok

\* C25: every tool call that a translator emits carries an identifier: no
\* function_call item of anthropicToResponsesAPI has an empty call_id, and no
\* tool_use block of responsesAPIToAnthropic or openAIToAnthropic an empty id.
C25_EveryToolCallHasId ==
    /\ TranslatedForResponses =>
          \A i \in 1..Len(returned.body.input) :
              returned.body.input[i].type = "function_call" =>
                  returned.body.input[i].call_id # <<>>
    /\ ((ResponseTranslated \/ CompletionTranslated) /\ ~returned.body.threw) =>
          \A i \in 1..Len(returned.body.content) :
              returned.body.content[i].type = "tool_use" =>
                  returned.body.content[i].id # <<>>

HasToolUse(content) == \E i \in 1..Len(content) : content[i].type = "tool_use"

\* C31: a response returned by responsesAPIToAnthropic or openAIToAnthropic has
\* stop_reason tool_use exactly when its content has a tool_use block.
C31_ToolUseIffToolBlock ==
    ((ResponseTranslated \/ CompletionTranslated) /\ ~returned.body.threw) =>
        (returned.body.stop_reason = "tool_use" <=> HasToolUse(returned.body.content))

\* C31 for responsesAPIToAnthropic alone.
C31_ResponsesToolUseIffToolBlock ==
    (ResponseTranslated /\ ~returned.body.threw) =>
        (returned.body.stop_reason = "tool_use" <=> HasToolUse(returned.body.content))

\* The text part is a contiguous piece of the text whole.
Contains(whole, part) ==
    \E k \in 0..Len(whole) :
        /\ k + Len(part) <= Len(whole)
        /\ SubSeq(whole, k + 1, k + Len(part)) = part

\* The text of the block is in the content of one of the messages out.
TextAppears(block, out) ==
    \/ block.text = <<>>
    \/ \E i \in 1..Len(out) :
          /\ out[i].content.js = "string"
          /\ Contains(out[i].content.text, block.text)

\* The tool_use block is one of the tool calls of one of the messages out.
ToolUseAppears(block, out) ==
    \E i \in 1..Len(out) : \E j \in 1..Len(out[i].tool_calls) :
        /\ out[i].tool_calls[j].id = block.id
        /\ out[i].tool_calls[j].function.name = block.name
        /\ out[i].tool_calls[j].function.arguments = Stringify(block.input)

\* C39: anthropicToOpenAI loses no conversational content. Every text block
\* and every tool_use block of every message with array content is in the
\* messages returned, also when the message has tool_result blocks.
C39_NoContentLost ==
    Translated =>
        \A m \in 1..Len(called.body.messages) :
            called.body.messages[m].kind = "blocks" =>
                \A b \in 1..Len(called.body.messages[m].blocks) :
                    LET block == called.body.messages[m].blocks[b]
                    IN /\ block.type = "text" =>
                            TextAppears(block, returned.body.messages)
                       /\ block.type = "tool_use" =>
                            ToolUseAppears(block, returned.body.messages)

\* C39 for the messages that have no tool_result block.
C39_NoContentLostWithoutResults ==
    Translated =>
        \A m \in 1..Len(called.body.messages) :
            (called.body.messages[m].kind = "blocks"
                /\ ~HasToolResult(called.body.messages[m])) =>
                \A b \in 1..Len(called.body.messages[m].blocks) :
                    LET block == called.body.messages[m].blocks[b]
                    IN /\ block.type = "text" =>
                            TextAppears(block, returned.body.messages)
                       /\ block.type = "tool_use" =>
                            ToolUseAppears(block, returned.body.messages)

-----------------------------------------------------------------------------
(* The orchestrator and the worker together *)

\* The messages the channels have delivered, by arrival number.
LowerCase(token) ==
    CASE token = "@Andy" -> "@andy"
      [] token = "@ANDY" -> "@andy"
      [] OTHER -> token

MentionsAssistant(t) ==
    \E i \in 1..Len(t) :
        LowerCase(t[i]) = "@andy" /\ (i = 1 \/ t[i - 1] = " ")

Triggers(groupId, content) ==
    groupId = DEFAULT_GROUP_ID \/ MentionsAssistant(Trim(content))

InboundRecords == {m \in {db[i] : i \in 1..Len(db)} : m.id[1] = "in"}

\* The inbound messages whose text was handed to invokeAgent.
StartedFor == {t.id : t \in {u \in tasks : u.fn = "invokeAgent"}}

\* C11: the step that receives a message pushes it onto the queue exactly when
\* it came from the default group or its trimmed text mentions the assistant
\* (whatever the case of the letters), and leaves one pending save for it; the
\* step that completes the save stores the message with the trigger mark set
\* under the same condition; and a message that does not trigger is never
\* handed to invokeAgent.
C11_EnqueueStep ==
    /\ received' = received + 1 =>
          \E t \in tasks' \ tasks :
              /\ tasks' = tasks \cup {t}
              /\ t.fn = "enqueue"
              /\ t.id = <<"in", received'>>
              /\ messageQueue' =
                    IF Triggers(t.groupId, t.text)
                    THEN Append(messageQueue, [id |-> t.id, groupId |-> t.groupId,
                                               content |-> t.text])
                    ELSE messageQueue
    /\ \A t \in tasks \ tasks' :
          t.fn = "enqueue" =>
              /\ Len(db') = Len(db) + 1
              /\ db'[Len(db')] = [id |-> t.id, groupId |-> t.groupId, content |-> t.text,
                                  isFromMe |-> FALSE,
                                  isTrigger |-> Triggers(t.groupId, t.text)]
    /\ \A t \in tasks' \ tasks :
          (t.fn = "invokeAgent" /\ t.id[1] = "in") =>
              /\ Triggers(t.groupId, t.text)
              /\ messageQueue # <<>>
              /\ Head(messageQueue).id = t.id
              /\ messageQueue' = Tail(messageQueue)

C11_TriggerIffPrimaryOrMention == [][C11_EnqueueStep]_vars

\* A message that mentions the assistant in another group was queued and stored
\* as a trigger, and one that did not was stored without being queued.
C11_Witness ==
    /\ \E m \in InboundRecords : m.groupId # DEFAULT_GROUP_ID /\ m.isTrigger
    /\ \E m \in InboundRecords :
          /\ ~m.isTrigger
          /\ \E i \in 1..Len(m.content) : m.content[i] \in MentionTokens

\* The error events the worker has posted and the main thread has not yet
\* seen delivered to the channel.
ErrorDelivered(r) ==
    \E i \in 1..Len(sent) :
        /\ sent[i].id = <<"out", r>>
        /\ sent[i].text # <<>>
        /\ Head(sent[i].text) = "Error: "

WorkerErrors ==
    {r \in 1..Len(runs) :
        Run(r).pc = "done" /\ Run(r).out # <<>>
            /\ Run(r).out[Len(Run(r).out)].type = "error"}

\* C12: whatever goes wrong inside an invocation, the state returns to idle,
\* the queue is emptied, and every error event of the worker reaches the
\* channel as a message that starts with the error prefix.
C12_ErrorsDoNotBlockQueue ==
    /\ (state = "thinking") ~> (state = "idle")
    /\ (messageQueue # <<>>) ~> (messageQueue = <<>>)
    /\ \A r \in 1..MaxInbound : (r \in WorkerErrors) ~> ErrorDelivered(r)

Stored(id) == \E i \in 1..Len(db) : db[i].id = id

\* The last n events emitted.
LastEvents(log, n) == SubSeq(log, Len(log) - n + 1, Len(log))

\* The step that ends a delivery: the result was stored before, it is handed to
\* the channel now, and typing-end and the return to idle follow in this order.
C13_DeliveryOrder ==
    \A t \in tasks \ tasks' :
        (t.fn = "deliverResponse" /\ t.pc = "send") =>
            /\ Stored(t.id)
            /\ sent' = Append(sent, [groupId |-> t.groupId, text |-> t.text, id |-> t.id])
            /\ Len(events') >= Len(events) + 2
            /\ SubSeq(events', 1, Len(events)) = events
            /\ LastEvents(events', 2) = <<Ev("typing-end", t.groupId), Ev("idle", "")>>
            /\ \A i \in (Len(events) + 1)..Len(events') :
                  events'[i].ev \in {"chime", "message", "typing-end", "idle"}
            /\ state' = "idle"

\* The step that takes a message from the queue and hands it to invokeAgent
\* finds every earlier run complete: delivered, and the state back to idle.
C13_NextTakenAfterCompletion ==
    \A t \in tasks' \ tasks :
        (t.fn = "invokeAgent" /\ t.viaQueue) =>
            /\ inbox = <<>>
            /\ outbox = <<>>
            /\ \A r \in 1..Len(runs) : Run(r).pc = "done"
            /\ \A u \in tasks' : u.fn \in {"invokeAgent", "deliverResponse"} => u = t
            /\ state = "idle"

\* C13: every run's result is stored, then routed, then typing-end is emitted,
\* then the state is set to idle, all before the next queued message is taken.
C13_CompletionBeforeNext ==
    [][C13_DeliveryOrder /\ C13_NextTakenAfterCompletion]_vars

\* The order inside one delivery, taken alone.
C13_OrderOfDelivery == [][C13_DeliveryOrder]_vars

\* The trigger a run was started for; "trigger" is carried by the model's
\* invoke command only to tell the runs apart.
TriggerOf(r) == Run(r).payload.trigger

IsScheduledRun(r) == TriggerOf(r)[1] = "sched"

OtherRunUnderWay(t) ==
    \/ inbox # <<>>
    \/ outbox # <<>>
    \/ \E r \in 1..Len(runs) : Run(r).pc # "done"
    \/ \E u \in tasks : u.fn \in {"invokeAgent", "deliverResponse"} /\ u.id # t.id

\* C14: a scheduled prompt reaches invokeAgent only from the head of the
\* queue, under the processing guard, and never while another run is under
\* way.
C14_ScheduledThroughQueue ==
    [][\A t \in tasks' \ tasks :
          (t.fn = "invokeAgent" /\ t.id[1] = "sched" /\ t.pc = "saveScheduled") =>
              /\ t.viaQueue
              /\ ~processing /\ processing'
              /\ messageQueue # <<>> /\ Head(messageQueue).id = t.id
              /\ ~OtherRunUnderWay(t)]_vars

Chimes(log) == Cardinality({i \in 1..Len(log) : log[i].ev = "chime"})

IsErrorText(text) == text # <<>> /\ Head(text) = "Error: "

\* C15: the chime is played only in the step that completes the delivery of
\* the result of a scheduled run, once, and that step always plays it; the
\* delivery of an ordinary run's result, or of an error, never plays it.
C15_ChimeOnlyForScheduled ==
    [][/\ Chimes(events') > Chimes(events) =>
              \E t \in tasks \ tasks' :
                  /\ t.fn = "deliverResponse" /\ t.pc = "send"
                  /\ IsScheduledRun(t.id[2])
                  /\ ~IsErrorText(t.text)
                  /\ Chimes(events') = Chimes(events) + 1
       /\ \A t \in tasks \ tasks' :
              (t.fn = "deliverResponse" /\ t.pc = "send" /\ IsScheduledRun(t.id[2])
                  /\ ~IsErrorText(t.text)) =>
                  Chimes(events') = Chimes(events) + 1]_vars

History(stored, groupId) == SelectSeq(stored, LAMBDA m : m.groupId = groupId)

Clearing == {t \in tasks : t.fn = "handleCompactDone" /\ t.pc = "save"}

\* C16: the step that completes a compaction leaves exactly the summary as
\* the group's history; and while a group's history is cleared and its summary
\* is not yet stored, no other step writes the stored messages or reads them
\* into a command for the worker.
C16_CompactionAtomic ==
    [][/\ \A t \in Clearing \ tasks' :
              /\ Len(History(db', t.groupId)) = 1
              /\ History(db', t.groupId)[1].id = t.id
              /\ History(db', t.groupId)[1].isFromMe
       /\ \A t \in Clearing \cap tasks' :
              /\ db' = db
              /\ inbox' # inbox => Len(inbox') < Len(inbox)]_vars

ActiveRuns == {r \in 1..Len(runs) : Run(r).pc # "done"}

\* The runs whose response or error the orchestrator has not finished delivering.
Undelivered ==
    ActiveRuns
    \cup {r \in 1..Len(runs) : \E i \in 1..Len(outbox) : outbox[i].run = r}
    \cup {r \in 1..Len(runs) :
            \E t \in tasks : t.fn = "deliverResponse" /\ t.id = <<"out", r>>}

\* C1: at most one run is active at any time, and the invoke command of the
\* next trigger is sent to the worker only after the response or error of the
\* run before it has been delivered.
C1_SingleFlight ==
    /\ Cardinality(ActiveRuns) <= 1
    /\ inbox # <<>> => Undelivered = {}

====
